---- MODULE Spec2Model ----
(***************************************************************************)
(* A model of the NLP code debugger: the text pipeline (Preprocessor,      *)
(* ErrorClassifier, SolutionGenerator) and the remote fix model            *)
(* (CodeBERTModel) with its lazily initialised, lock-guarded client.       *)
(*                                                                         *)
(* Text is a sequence of one-character strings, so that the string         *)
(* operations of the source (strip, split, lower, substring search) are    *)
(* computed and not assumed.                                               *)
(***************************************************************************)
EXTENDS Integers, Sequences, FiniteSets, TLC

\* ------------------------------------------------------------------------
\* Bounds of the model
\* ------------------------------------------------------------------------

\* Number of threads calling into one CodeBERTModel instance.
NumThreads == 2

\* Ghost counters (smoke tests, client constructions) saturate here.
MaxCount == 3

\* The lookups of an example in one behaviour.
MaxLookups == 5

\* The requests served one after another on the same tables.
MaxRequests == 2

\* ------------------------------------------------------------------------
\* Text helpers (Python str semantics on sequences of characters)
\* ------------------------------------------------------------------------

\* The whitespace characters str.strip(), str.rstrip() and \s remove.
WS == {" ", "\t", "\n", "\r"}

UpperChars == <<"A","B","C","D","E","F","G","H","I","J","K","L","M","N","O","P","Q","R","S","T","U","V","W","X","Y","Z">>

LowerChars == <<"a","b","c","d","e","f","g","h","i","j","k","l","m","n","o","p","q","r","s","t","u","v","w","x","y","z">>

DigitChars == <<"0","1","2","3","4","5","6","7","8","9">>

Range(f) == {f[i] : i \in DOMAIN f}

\* str.lower() of one character.
LowerChar(c) ==
    IF \E i \in 1..26 : UpperChars[i] = c
    THEN LowerChars[CHOOSE i \in 1..26 : UpperChars[i] = c]
    ELSE c

\* str.lower()
Lower(s) == [i \in 1..Len(s) |-> LowerChar(s[i])]

\* \w of the re module on ASCII text.
IsWordChar(c) == c \in Range(UpperChars) \cup Range(LowerChars) \cup Range(DigitChars) \cup {"_"}

\* s[i:] of Python with a 1-based first index.
From(s, i) == SubSeq(s, i, Len(s))

\* str.startswith
StartsWith(s, p) == Len(p) <= Len(s) /\ SubSeq(s, 1, Len(p)) = p

\* str.endswith
EndsWith(s, p) == Len(p) <= Len(s) /\ SubSeq(s, Len(s) - Len(p) + 1, Len(s)) = p

\* p occurs in s at position i.
OccursAt(s, p, i) == i >= 1 /\ i + Len(p) - 1 <= Len(s) /\ SubSeq(s, i, i + Len(p) - 1) = p

\* The positions >= from at which p occurs in s.
Occurrences(s, p, from) == {i \in from..(Len(s) - Len(p) + 1) : OccursAt(s, p, i)}

\* `p in s` of Python.
Contains(s, p) == Occurrences(s, p, 1) # {}

Min(S) == CHOOSE x \in S : \A y \in S : x <= y

Max(S) == CHOOSE x \in S : \A y \in S : x >= y

\* Number of leading whitespace characters of s.
LeadingWS(s) ==
    IF \A i \in 1..Len(s) : s[i] \in WS THEN Len(s)
    ELSE Min({i \in 1..Len(s) : s[i] \notin WS}) - 1

\* Number of trailing whitespace characters of s.
TrailingWS(s) ==
    IF \A i \in 1..Len(s) : s[i] \in WS THEN Len(s)
    ELSE Len(s) - Max({i \in 1..Len(s) : s[i] \notin WS})

\* str.lstrip()
LStrip(s) == From(s, LeadingWS(s) + 1)

\* str.rstrip()
RStrip(s) == SubSeq(s, 1, Len(s) - TrailingWS(s))

\* str.strip()
Strip(s) == LStrip(RStrip(s))

RECURSIVE SplitOn(_, _)
\* s.split(c) for a one-character separator c: always at least one piece.
SplitOn(s, c) ==
    IF \A i \in 1..Len(s) : s[i] # c THEN <<s>>
    ELSE LET k == Min({i \in 1..Len(s) : s[i] = c})
         IN <<SubSeq(s, 1, k - 1)>> \o SplitOn(From(s, k + 1), c)

RECURSIVE JoinWith(_, _)
\* sep.join(parts)
JoinWith(parts, sep) ==
    IF Len(parts) = 0 THEN <<>>
    ELSE IF Len(parts) = 1 THEN parts[1]
    ELSE parts[1] \o sep \o JoinWith(Tail(parts), sep)

RECURSIVE ReplaceAll(_, _, _)
\* s.replace(old, new) for a non-empty old.
ReplaceAll(s, old, new) ==
    IF Occurrences(s, old, 1) = {} THEN s
    ELSE LET k == Min(Occurrences(s, old, 1))
         IN SubSeq(s, 1, k - 1) \o new \o ReplaceAll(From(s, k + Len(old)), old, new)

\* ------------------------------------------------------------------------
\* Python values: a string, None, or a coroutine object
\* ------------------------------------------------------------------------

Str(s) == [tag |-> "str", text |-> s]

NoneVal == [tag |-> "none", text |-> <<>>]

\* What calling an `async def` function returns: the body has not run.
CoroutineVal == [tag |-> "coroutine", text |-> <<>>]

\* Python truthiness of a value: an object, a number other than zero, or a
\* string that is not empty.
Truthy(v) == v.tag \in {"coroutine", "number"} \/ (v.tag = "str" /\ Len(v.text) > 0)

\* `a or b`
OrElse(a, b) == IF Truthy(a) THEN a ELSE b

\* ------------------------------------------------------------------------
\* CodeBERTModel: the rule-based rewriters
\* ------------------------------------------------------------------------

ControlKeywords == << <<"i","f">>, <<"e","l","i","f">>, <<"e","l","s","e">>, <<"f","o","r">>, <<"w","h","i","l","e">>, <<"d","e","f">>, <<"c","l","a","s","s">>, <<"t","r","y">>, <<"e","x","c","e","p","t">>, <<"f","i","n","a","l","l","y">>, <<"w","i","t","h">> >>

\* re.search(r'(if|elif|...|with)\s+[^:]*$', s): a keyword, one whitespace
\* character at least, and no colon from there to the end of s.
MissingColonSearch(s) ==
    \E k \in 1..Len(ControlKeywords) : \E i \in 1..Len(s) :
        LET kw == ControlKeywords[k]
            w == i + Len(kw)
        IN /\ OccursAt(s, kw, i)
           /\ w <= Len(s)
           /\ s[w] \in WS
           /\ \A j \in (w + 1)..Len(s) : s[j] # ":"

PrintWord == <<"p","r","i","n","t">>

\* End of the whitespace run that starts at position w of s (w - 1 if s[w] is
\* no whitespace).
WSRunEnd(s, w) ==
    IF \A j \in w..Len(s) : s[j] \in WS THEN Len(s)
    ELSE Min({j \in w..Len(s) : s[j] \notin WS}) - 1

\* Where group 1 of r'print\s+([^\(].*)' starts when the pattern matches at
\* position i of s, 0 when it does not match there. \s+ is greedy and gives
\* one character back when an opening parenthesis (or the end) follows it.
PrintGroupStart(s, i) ==
    LET w == i + Len(PrintWord)
        e == WSRunEnd(s, w)
    IN IF ~OccursAt(s, PrintWord, i) \/ w > Len(s) \/ s[w] \notin WS THEN 0
       ELSE IF e + 1 <= Len(s) /\ s[e + 1] # "(" THEN e + 1
       ELSE IF e - w + 1 >= 2 THEN e
       ELSE 0

\* re.search(r'print\s+[^\(]', line)
PrintSearch(s) == \E i \in 1..Len(s) : PrintGroupStart(s, i) # 0

\* re.sub(r'print\s+([^\(].*)', r'print(\1)', line): the leftmost match runs to
\* the end of the line.
PrintSub(s) ==
    IF ~PrintSearch(s) THEN s
    ELSE LET i == Min({j \in 1..Len(s) : PrintGroupStart(s, j) # 0})
         IN SubSeq(s, 1, i - 1) \o <<"p","r","i","n","t","(">>
              \o From(s, PrintGroupStart(s, i)) \o <<")">>

\* One line of _fix_syntax_error. The print rewrite starts again from the
\* original line, so it drops a colon the first rewrite appended.
FixSyntaxLine(line) ==
    LET colon == IF MissingColonSearch(Strip(line)) /\ ~EndsWith(Strip(line), <<":">>)
                 THEN RStrip(line) \o <<":">>
                 ELSE line
    IN IF PrintSearch(line) THEN PrintSub(line) ELSE colon

_fix_syntax_error(code, error_message) ==
    LET lines == SplitOn(code, "\n")
    IN JoinWith([i \in 1..Len(lines) |-> FixSyntaxLine(lines[i])], <<"\n">>)

RECURSIVE Spaces(_)
Spaces(n) == IF n <= 0 THEN <<>> ELSE <<" ">> \o Spaces(n - 1)

\* FixIndentLine that puts the new indent in front of the whole line.
FixIndentLine_KeepsOldIndent(line) ==
    IF Len(Strip(line)) > 0
    THEN LET leading_spaces == Len(line) - Len(LStrip(line))
             indent_level == leading_spaces \div 4
         IN Spaces(4 * indent_level) \o line
    ELSE line

\* One line of _fix_indentation_error.
FixIndentLine(line) ==
    IF Len(Strip(line)) > 0
    THEN LET leading_spaces == Len(line) - Len(LStrip(line))
             indent_level == leading_spaces \div 4
         IN Spaces(4 * indent_level) \o LStrip(line)
    ELSE line

_fix_indentation_error(code) ==
    LET lines == SplitOn(code, "\n")
    IN JoinWith([i \in 1..Len(lines) |-> FixIndentLine(lines[i])], <<"\n">>)

\* fix_patterns['name_error']['common_typos'], in dictionary order.
CommonTypos == <<
    << <<"l","e","n","g","h","t">>, <<"l","e","n","g","t","h">> >>,
    << <<"p","i","r","n","t">>, <<"p","r","i","n","t">> >>,
    << <<"r","e","t","r","u","n">>, <<"r","e","t","u","r","n">> >>,
    << <<"i","m","p","r","o","t">>, <<"i","m","p","o","r","t">> >>,
    << <<"f","r","o"," ">>, <<"f","o","r"," ">> >>,
    << <<"w","h","i","e","l">>, <<"w","h","i","l","e">> >> >>

\* \b at the gap before position p of s (p in 1..Len(s)+1).
WordBoundary(s, p) ==
    LET before == p - 1 >= 1 /\ IsWordChar(s[p - 1])
        after == p <= Len(s) /\ IsWordChar(s[p])
    IN before # after

RECURSIVE SubWordFrom(_, _, _, _)
\* re.sub(r'\b' + typo + r'\b', correction, s), scanning s from position i.
SubWordFrom(s, typo, correction, i) ==
    IF i > Len(s) THEN <<>>
    ELSE IF OccursAt(s, typo, i) /\ WordBoundary(s, i) /\ WordBoundary(s, i + Len(typo))
    THEN correction \o SubWordFrom(s, typo, correction, i + Len(typo))
    ELSE <<s[i]>> \o SubWordFrom(s, typo, correction, i + 1)

RECURSIVE FixTyposFrom(_, _)
FixTyposFrom(code, k) ==
    IF k > Len(CommonTypos) THEN code
    ELSE FixTyposFrom(SubWordFrom(code, CommonTypos[k][1], CommonTypos[k][2], 1), k + 1)

_fix_name_error(code, error_message) == FixTyposFrom(code, 1)

\* End of the run of word characters that starts at position i of s.
WordRunEnd(s, i) ==
    IF \A j \in i..Len(s) : IsWordChar(s[j]) THEN Len(s)
    ELSE Min({j \in i..Len(s) : ~IsWordChar(s[j])}) - 1

\* r'(\w+)\s*\+\s*(\w+)' at position i of s: <<end of group 1, start of group 2,
\* end of group 2>>, or <<0, 0, 0>> when it does not match there.
PlusMatch(s, i) ==
    IF i > Len(s) \/ ~IsWordChar(s[i]) THEN <<0, 0, 0>>
    ELSE LET j == WordRunEnd(s, i)
             k == WSRunEnd(s, j + 1) + 1
             m == WSRunEnd(s, k + 1) + 1
         IN IF k <= Len(s) /\ s[k] = "+" /\ m <= Len(s) /\ IsWordChar(s[m])
            THEN <<j, m, WordRunEnd(s, m)>>
            ELSE <<0, 0, 0>>

RECURSIVE PlusSubFrom(_, _)
\* re.sub(r'(\w+)\s*\+\s*(\w+)', r'str(\1) + str(\2)', s), scanning from i.
PlusSubFrom(s, i) ==
    IF i > Len(s) THEN <<>>
    ELSE LET m == PlusMatch(s, i)
         IN IF m[1] # 0
            THEN <<"s","t","r","(">> \o SubSeq(s, i, m[1]) \o <<")"," ","+"," ","s","t","r","(">>
                   \o SubSeq(s, m[2], m[3]) \o <<")">> \o PlusSubFrom(s, m[3] + 1)
            ELSE <<s[i]>> \o PlusSubFrom(s, i + 1)

_fix_type_error(code, error_message) ==
    LET lines == SplitOn(code, "\n")
        convert == \/ Contains(Lower(error_message), <<"c","a","n","'","t"," ","c","o","n","v","e","r","t">>)
                   \/ Contains(Lower(error_message), <<"u","n","s","u","p","p","o","r","t","e","d"," ","o","p","e","r","a","n","d">>)
    IN JoinWith([i \in 1..Len(lines) |-> IF convert THEN PlusSubFrom(lines[i], 1) ELSE lines[i]], <<"\n">>)

\* Error kinds, spelled as the source spells them.
K_syntax == <<"s","y","n","t","a","x","_","e","r","r","o","r">>

K_type == <<"t","y","p","e","_","e","r","r","o","r">>

K_name == <<"n","a","m","e","_","e","r","r","o","r">>

K_indentation == <<"i","n","d","e","n","t","a","t","i","o","n","_","e","r","r","o","r">>

\* _get_rule_based_fix: the rewriter's output for four kinds, None for the
\* rest. With string arguments no rewriter raises.
_get_rule_based_fix(code, error_type, error_message) ==
    IF error_type = K_syntax THEN Str(_fix_syntax_error(code, error_message))
    ELSE IF error_type = K_indentation THEN Str(_fix_indentation_error(code))
    ELSE IF error_type = K_name THEN Str(_fix_name_error(code, error_message))
    ELSE IF error_type = K_type THEN Str(_fix_type_error(code, error_message))
    ELSE NoneVal

\* ------------------------------------------------------------------------
\* CodeBERTModel._extract_gemini_fix
\* ------------------------------------------------------------------------

\* prefixes_to_remove, in list order.
PrefixesToRemove == <<
    <<"H","e","r","e","'","s"," ","t","h","e"," ","f","i","x","e","d"," ","c","o","d","e",":">>,
    <<"H","e","r","e"," ","i","s"," ","t","h","e"," ","f","i","x","e","d"," ","c","o","d","e",":">>,
    <<"F","i","x","e","d"," ","c","o","d","e",":">>,
    <<"T","h","e"," ","f","i","x","e","d"," ","c","o","d","e"," ","i","s",":">>,
    <<"F","i","x","e","d"," ","P","y","t","h","o","n"," ","c","o","d","e",":">>,
    <<"C","o","r","r","e","c","t","e","d"," ","c","o","d","e",":">>,
    <<"H","e","r","e","'","s"," ","t","h","e"," ","c","o","r","r","e","c","t","e","d"," ","c","o","d","e",":">>,
    <<"H","e","r","e"," ","i","s"," ","t","h","e"," ","c","o","r","r","e","c","t","e","d"," ","c","o","d","e",":">>,
    <<"T","h","e"," ","c","o","r","r","e","c","t","e","d"," ","c","o","d","e"," ","i","s",":">>,
    <<"H","e","r","e","'","s"," ","t","h","e"," ","c","o","r","r","e","c","t","e","d"," ","c","o","d","e",":">> >>

\* A TLA+ string cannot hold the backquote character: "@" stands for it.
Fence == <<"@","@","@">>

FencePython == <<"@","@","@","p","y","t","h","o","n">>

NewlineFence == <<"\n","@","@","@">>

\* fix_text after the first matching boilerplate prefix is cut off.
StripPrefix(fix_text) ==
    LET hits == {k \in 1..Len(PrefixesToRemove) : StartsWith(Lower(fix_text), Lower(PrefixesToRemove[k]))}
    IN IF hits = {} THEN fix_text
       ELSE Strip(From(fix_text, Len(PrefixesToRemove[Min(hits)]) + 1))

\* r'```(?:python)?\s*\n(.+?)\n```' with re.DOTALL at position i of s: the
\* newline that ends the opening fence line. \s* is greedy, so this is the
\* last newline of the whitespace run for which a closing fence still follows
\* at least one character later; 0 when the pattern does not match at i.
BlockNewline(s, i) ==
    IF ~OccursAt(s, Fence, i) THEN 0
    ELSE LET p == IF OccursAt(s, FencePython, i) THEN i + 9 ELSE i + 3
             e == WSRunEnd(s, p)
             N == {n \in p..e : s[n] = "\n" /\ Occurrences(s, NewlineFence, n + 2) # {}}
         IN IF N = {} THEN 0 ELSE Max(N)

\* Group 1 of the match at i: lazy, so it ends at the first closing fence.
BlockContent(s, i) ==
    LET n == BlockNewline(s, i)
        q == Min(Occurrences(s, NewlineFence, n + 2))
    IN SubSeq(s, n + 1, q - 1)

\* Positions at which the code-block pattern matches.
BlockStarts(s) == {i \in 1..Len(s) : BlockNewline(s, i) # 0}

\* r'```$' at position j of s: the end, or the newline that ends the string.
FenceAtEnd(s, j) ==
    /\ OccursAt(s, Fence, j)
    /\ \/ j + 3 > Len(s)
       \/ j + 3 = Len(s) /\ s[Len(s)] = "\n"

\* re.sub(r'^<opening>|```$', '', s), where `consumed` characters of s were
\* matched by the first alternative at the start of s.
CutFences(s, consumed) ==
    LET ends == {j \in (consumed + 1)..Len(s) : FenceAtEnd(s, j)}
    IN IF ends = {} THEN From(s, consumed + 1)
       ELSE SubSeq(s, consumed + 1, Min(ends) - 1) \o From(s, Min(ends) + 3)

\* re.sub(r'^```python\s*|```$', '', s)
CutPythonFence(s) ==
    CutFences(s, IF StartsWith(s, FencePython) THEN WSRunEnd(s, 10) ELSE 0)

\* re.sub(r'^```|```$', '', s)
CutPlainFence(s) ==
    CutFences(s, IF StartsWith(s, Fence) THEN 3 ELSE 0)

Markers == << <<"f","i","x","e","d"," ","c","o","d","e",":">>, <<"c","o","r","r","e","c","t","e","d"," ","c","o","d","e",":">> >>

\* The text after the first occurrence of marker in s.lower(): it is cut from
\* the lower-cased text, not from s.
AfterMarker(s, marker) ==
    LET low == Lower(s)
    IN Strip(From(low, Min(Occurrences(low, marker, 1)) + Len(marker)))

\* The marker loop: the first marker with non-blank text after it wins.
MarkerSplit(s) ==
    LET hits == {k \in 1..Len(Markers) :
                    Contains(Lower(s), Markers[k]) /\ Len(AfterMarker(s, Markers[k])) > 0}
    IN IF hits = {} THEN s ELSE AfterMarker(s, Markers[Min(hits)])

CodeIndicators == { <<"d","e","f"," ">>, <<"c","l","a","s","s"," ">>, <<"i","m","p","o","r","t"," ">>, <<"p","r","i","n","t","(">>, <<"i","f"," ">>, <<"f","o","r"," ">>, <<"w","h","i","l","e"," ">>, <<"=">>, <<"r","e","t","u","r","n"," ">> }

\* The text the extraction keeps, before the two acceptance checks.
ExtractedText(text) ==
    LET fix_text == StripPrefix(Strip(text))
    IN IF BlockStarts(fix_text) # {}
       THEN Strip(BlockContent(fix_text, Min(BlockStarts(fix_text))))
       ELSE MarkerSplit(CutPlainFence(CutPythonFence(fix_text)))

\* _extract_gemini_fix(response_text, original_code): a response that is no
\* string raises inside the try block and yields the original code.
_extract_gemini_fix(response, original_code) ==
    IF response.tag # "str" THEN Str(original_code)
    ELSE LET fix_text == ExtractedText(response.text)
         IN IF Len(fix_text) < 5 THEN Str(original_code)
            ELSE IF \A ind \in CodeIndicators : ~Contains(fix_text, ind) THEN Str(original_code)
            ELSE Str(fix_text)

\* ------------------------------------------------------------------------
\* CodeBERTModel: lazy client initialisation and fix generation, per thread
\* ------------------------------------------------------------------------

Threads == 1..NumThreads

NoThread == 0

K_reference == <<"r","e","f","e","r","e","n","c","e","_","e","r","r","o","r">>

\* problematic_types of _generate_fix_async.
ProblematicTypes == {K_syntax, K_type, K_name, K_reference}

\* The arguments (code, error_type, error_message) a run's calls pass.
Requests == <<
    [code |-> <<"d","e","f"," ","f","(","x",")","\n"," "," "," "," ","r","e","t","u","r","n"," ","x">>,
     error_type |-> K_syntax,
     error_message |-> <<"S","y","n","t","a","x","E","r","r","o","r",":"," ","e","x","p","e","c","t","e","d"," ","'",":","'">>],
    [code |-> <<"p","r","i","n","t","(","f","o","o",")","\n","y"," ","="," ","1">>,
     error_type |-> K_name,
     error_message |-> <<"N","a","m","e","E","r","r","o","r",":"," ","n","a","m","e"," ","'","f","o","o","'"," ","i","s"," ","n","o","t"," ","d","e","f","i","n","e","d">>],
    [code |-> <<" "," ","x"," ","="," ","1","\n"," "," "," "," "," "," ","y"," ","="," ","2">>,
     error_type |-> K_indentation,
     error_message |-> <<"I","n","d","e","n","t","a","t","i","o","n","E","r","r","o","r",":"," ","u","n","e","x","p","e","c","t","e","d"," ","i","n","d","e","n","t">>],
    [code |-> <<"d"," ","="," ","{","}","\n","d","[","'","a","'","]">>,
     error_type |-> <<"k","e","y","_","e","r","r","o","r">>,
     error_message |-> <<"K","e","y","E","r","r","o","r",":"," ","'","a","'">>] >>

\* What message.content of a completed remote call can be: None, a fenced
\* block with a colon, prefixed code without a colon, prose, a fenced block
\* that names foo, and a five-character assignment.
Responses == {
    NoneVal,
    Str(<<"@","@","@","p","y","t","h","o","n","\n","d","e","f"," ","f","(","x",")",":","\n"," "," "," "," ","r","e","t","u","r","n"," ","x","\n","@","@","@">>),
    Str(<<"F","i","x","e","d"," ","c","o","d","e",":","\n","r","e","s","u","l","t"," ","="," ","c","o","m","p","u","t","e","(","x",")">>),
    Str(<<"I"," ","c","a","n","n","o","t"," ","h","e","l","p"," ","w","i","t","h"," ","t","h","a","t",".">>),
    Str(<<"@","@","@","\n","f","o","o"," ","="," ","1","\n","p","r","i","n","t","(","f","o","o",")","\n","@","@","@">>),
    Str(<<"x"," ","="," ","1">>) }

\* re.search(r"'([^']+)'\s+is not defined", error_message): the positions of
\* an opening quote whose quoted, non-empty name is followed by whitespace and
\* the words "is not defined".
NextQuote(s, i) ==
    IF \E j \in (i + 1)..Len(s) : s[j] = "'"
    THEN Min({j \in (i + 1)..Len(s) : s[j] = "'"})
    ELSE 0

UndefinedVarStarts(s) ==
    {i \in 1..Len(s) :
        LET j == NextQuote(s, i)
        IN /\ s[i] = "'"
           /\ j >= i + 2
           /\ j + 1 <= Len(s)
           /\ s[j + 1] \in WS
           /\ OccursAt(s, <<"i","s"," ","n","o","t"," ","d","e","f","i","n","e","d">>, WSRunEnd(s, j + 1) + 1)}

\* group(1) of the leftmost match.
UndefinedVar(s) ==
    LET i == Min(UndefinedVarStarts(s))
    IN SubSeq(s, i + 1, NextQuote(s, i) - 1)

\* The acceptance check of the problematic kinds (lines 429-453): TRUE when
\* the extracted fix is returned, FALSE when the branch only logs a warning.
FixAccepted(error_type, error_message, fixed_code) ==
    IF Lower(error_type) \notin ProblematicTypes THEN TRUE
    ELSE IF /\ Lower(error_type) = K_syntax
            /\ ~Contains(fixed_code, <<":">>)
            /\ Contains(error_message, <<":">>)
    THEN FALSE
    ELSE IF /\ Lower(error_type) = K_name
            /\ Len(error_message) > 0
            /\ \/ Contains(Lower(error_message), <<"n","o","t"," ","d","e","f","i","n","e","d">>)
               \/ Contains(Lower(error_message), <<"u","n","d","e","f","i","n","e","d">>)
    THEN ~(/\ UndefinedVarStarts(error_message) # {}
           /\ ~Contains(fixed_code, UndefinedVar(error_message)))
    ELSE TRUE

VARIABLES
    request,               \* index into Requests: the arguments of the run's calls
    model_loaded,          \* self._model_loaded
    is_initialized,        \* self.is_initialized
    loading_lock,          \* holder of self._loading_lock, NoThread when free
    client,                \* self.client: NoThread for the one __init__ built,
                           \* else the thread whose thread-local client it is
    thread_local_client,   \* hasattr(self._thread_local, 'client'), per thread
    pc,                    \* where each thread stands
    op,                    \* the method each thread called last
    attempt,               \* loop variable of generate_fix
    result,                \* what the last call returned
    gen_calls,             \* generation calls issued by the running fix attempt
    smoke_calls,           \* smoke-test calls issued so far (saturating)
    smoke_outcome,         \* how the last smoke test ended
    first_outcome,         \* how the first generation call of the attempt ended
    retry_outcome,         \* how the simplified-prompt retry ended
    response_text,         \* content of the first call's response (line 414)
    retry_text             \* content of the retry's response (line 485)

mlVars == <<request, model_loaded, is_initialized, loading_lock, client,
            thread_local_client, pc, op, attempt, result, gen_calls, smoke_calls,
            smoke_outcome, first_outcome, retry_outcome, response_text, retry_text>>

\* max_retries of generate_fix.
max_retries == 2

NoResult == [tag |-> "no_result", text |-> <<>>]

TrueVal == [tag |-> "true", text |-> <<>>]

FalseVal == [tag |-> "false", text |-> <<>>]

Bump(n) == IF n < MaxCount THEN n + 1 ELSE n

\* The lines of _ensure_model_loaded that run with the lock held and past the
\* second check: the client-initialisation sequence.
InitSequence == {"init_setup", "init_smoke", "init_set_loaded", "init_set_initialized",
                 "init_fail_loaded", "init_fail_initialized"}

\* The arguments of the run's calls.
Code == Requests[request].code

ErrorType == Requests[request].error_type

ErrorMessage == Requests[request].error_message

\* The state after CodeBERTModel.__init__ returned.
MLInit ==
    /\ request \in 1..Len(Requests)
    /\ model_loaded = FALSE
    /\ is_initialized = FALSE
    /\ loading_lock = NoThread
    /\ client = NoThread
    /\ thread_local_client = [t \in Threads |-> FALSE]
    /\ pc = [t \in Threads |-> "idle"]
    /\ op = [t \in Threads |-> "none"]
    /\ attempt = [t \in Threads |-> 0]
    /\ result = [t \in Threads |-> NoResult]
    /\ gen_calls = [t \in Threads |-> 0]
    /\ smoke_calls = 0
    /\ smoke_outcome = "none"
    /\ first_outcome = [t \in Threads |-> "none"]
    /\ response_text = [t \in Threads |-> NoResult]
    /\ retry_text = [t \in Threads |-> NoResult]
    /\ retry_outcome = [t \in Threads |-> "none"]

\* A thread returns v to the caller of the public method it is in.
Return(t, v) ==
    /\ pc' = [pc EXCEPT ![t] = "idle"]
    /\ result' = [result EXCEPT ![t] = v]

\* generate_fix gives up loading (line 532): the rule-based fix, or the code
\* when the fixer has nothing, for each request.
RuleBasedFallbacks ==
    [r \in 1..Len(Requests) |->
        OrElse(_get_rule_based_fix(Requests[r].code, Requests[r].error_type,
                                   Requests[r].error_message),
               Str(Requests[r].code))]

RuleBasedFallback == RuleBasedFallbacks[request]

\* EnsureReturns with one retry more than max_retries.
EnsureReturns_ExtraRetry(t, method, tries, loaded) ==
    IF method = "initialize"
    THEN /\ Return(t, IF loaded THEN TrueVal ELSE FalseVal)
         /\ attempt' = [attempt EXCEPT ![t] = tries]
    ELSE IF loaded
    THEN /\ Return(t, CoroutineVal)
         /\ attempt' = [attempt EXCEPT ![t] = tries]
    ELSE IF tries <= max_retries
    THEN /\ attempt' = [attempt EXCEPT ![t] = tries + 1]
         /\ pc' = [pc EXCEPT ![t] = "ensure_fast"]
         /\ result' = [result EXCEPT ![t] = NoResult]
    ELSE /\ Return(t, RuleBasedFallback)
         /\ attempt' = [attempt EXCEPT ![t] = tries]

\* _ensure_model_loaded returns `loaded` to the method thread t is in, and the
\* method goes on to its next access of shared state. initialize() returns the
\* flag. generate_fix (lines 522-540) returns what calling the `async def`
\* _generate_fix_async returns when the model is loaded: nothing awaits it, so
\* its body does not run and the handler of line 542 is never entered.
\* Otherwise it sleeps and tries again, or gives up after max_retries retries.
EnsureReturns(t, method, tries, loaded) ==
    IF method = "initialize"
    THEN /\ Return(t, IF loaded THEN TrueVal ELSE FalseVal)
         /\ attempt' = [attempt EXCEPT ![t] = tries]
    ELSE IF loaded
    THEN /\ Return(t, CoroutineVal)
         /\ attempt' = [attempt EXCEPT ![t] = tries]
    ELSE IF tries < max_retries
    THEN /\ attempt' = [attempt EXCEPT ![t] = tries + 1]
         /\ pc' = [pc EXCEPT ![t] = "ensure_fast"]
         /\ result' = [result EXCEPT ![t] = NoResult]
    ELSE /\ Return(t, RuleBasedFallback)
         /\ attempt' = [attempt EXCEPT ![t] = tries]

\* Line 110, the unlocked fast path, as the first thing a call of `method` by
\* thread t does in its attempt number `tries`.
FastPath(t, method, tries) ==
    /\ op' = [op EXCEPT ![t] = method]
    /\ gen_calls' = [gen_calls EXCEPT ![t] = 0]
    /\ first_outcome' = [first_outcome EXCEPT ![t] = "none"]
    /\ retry_outcome' = [retry_outcome EXCEPT ![t] = "none"]
    /\ response_text' = [response_text EXCEPT ![t] = NoResult]
    /\ retry_text' = [retry_text EXCEPT ![t] = NoResult]
    /\ IF model_loaded
       THEN EnsureReturns(t, method, tries, TRUE)
       ELSE /\ pc' = [pc EXCEPT ![t] = "ensure_lock"]
            /\ attempt' = [attempt EXCEPT ![t] = tries]
            /\ result' = [result EXCEPT ![t] = NoResult]
    /\ UNCHANGED <<request, model_loaded, is_initialized, loading_lock, client,
                   thread_local_client, smoke_calls, smoke_outcome>>

\* initialize(): the legacy entry into _ensure_model_loaded.
InitializeCall(t) ==
    /\ pc[t] = "idle"
    /\ FastPath(t, "initialize", 0)

\* generate_fix(code, error_type, error_message): attempt 0 of the loading loop.
GenerateFixCall(t) ==
    /\ pc[t] = "idle"
    /\ FastPath(t, "generate_fix", 0)

\* generate_fix, a later attempt of the loading loop (after the sleep).
EnsureFastPath(t) ==
    /\ pc[t] = "ensure_fast"
    /\ FastPath(t, op[t], attempt[t])

\* AcquireLock without mutual exclusion: the lock is taken even when held.
AcquireLock_NoGuard(t) ==
    /\ pc[t] = "ensure_lock"
    /\ loading_lock' = t
    /\ pc' = [pc EXCEPT ![t] = "ensure_recheck"]
    /\ UNCHANGED <<request, model_loaded, is_initialized, client, thread_local_client,
                   op, attempt, result, gen_calls, smoke_calls, smoke_outcome, first_outcome, response_text,
                   retry_outcome, retry_text>>

\* Line 113: `with self._loading_lock` blocks until the lock is free.
AcquireLock(t) ==
    /\ pc[t] = "ensure_lock"
    /\ loading_lock = NoThread
    /\ loading_lock' = t
    /\ pc' = [pc EXCEPT ![t] = "ensure_recheck"]
    /\ UNCHANGED <<request, model_loaded, is_initialized, client, thread_local_client,
                   op, attempt, result, gen_calls, smoke_calls, smoke_outcome, first_outcome, response_text,
                   retry_outcome, retry_text>>

\* EnsureRecheck without the second check: a thread that got the lock always
\* goes on to initialise.
EnsureRecheck_NoSecondCheck(t) ==
    /\ pc[t] = "ensure_recheck"
    /\ pc' = [pc EXCEPT ![t] = "init_setup"]
    /\ UNCHANGED <<request, model_loaded, is_initialized, loading_lock, client,
                   thread_local_client, op, attempt, result, gen_calls, smoke_calls, smoke_outcome,
                   first_outcome, response_text, retry_outcome, retry_text>>

\* Line 114: the second check, with the lock held.
EnsureRecheck(t) ==
    /\ pc[t] = "ensure_recheck"
    /\ IF model_loaded
       THEN /\ loading_lock' = NoThread
            /\ EnsureReturns(t, op[t], attempt[t], TRUE)
       ELSE /\ loading_lock' = loading_lock
            /\ pc' = [pc EXCEPT ![t] = "init_setup"]
            /\ UNCHANGED <<attempt, result>>
    /\ UNCHANGED <<request, model_loaded, is_initialized, client, thread_local_client,
                   op, gen_calls, smoke_calls, smoke_outcome, first_outcome, response_text, retry_outcome, retry_text>>

\* Lines 121-131: the API-key check, Groq.configure and the per-thread client.
\* Each of the three can raise, which enters the handler of line 154; the
\* client is only constructed by a thread that has none yet.
InitSetup(t) ==
    /\ pc[t] = "init_setup"
    /\ \E outcome \in {"no_key", "configure_raises", "client_raises", "ok"} :
          IF outcome = "ok" \/ (outcome = "client_raises" /\ thread_local_client[t])
          THEN /\ thread_local_client' = [thread_local_client EXCEPT ![t] = TRUE]
               /\ client' = t
               /\ pc' = [pc EXCEPT ![t] = "init_smoke"]
          ELSE /\ UNCHANGED <<thread_local_client, client>>
               /\ pc' = [pc EXCEPT ![t] = "init_fail_loaded"]
    /\ UNCHANGED <<request, model_loaded, is_initialized, loading_lock,
                   op, attempt, result, gen_calls, smoke_calls, smoke_outcome, first_outcome, response_text,
                   retry_outcome, retry_text>>

\* InitSmokeTest with a failed smoke test that aborts the initialisation.
InitSmokeTest_Aborts(t) ==
    /\ pc[t] = "init_smoke"
    /\ smoke_calls' = Bump(smoke_calls)
    /\ \E outcome \in {"ok", "raised"} :
          /\ smoke_outcome' = outcome
          /\ pc' = [pc EXCEPT ![t] = IF outcome = "ok" THEN "init_set_loaded"
                                     ELSE "init_fail_loaded"]
    /\ UNCHANGED <<request, model_loaded, is_initialized, loading_lock, client,
                   thread_local_client, op, attempt, result, gen_calls, first_outcome, response_text,
                   retry_outcome, retry_text>>

\* Lines 134-147: the smoke test. The call, or the read of the content of its
\* response, may raise; the try block of line 134 catches that and only logs.
InitSmokeTest(t) ==
    /\ pc[t] = "init_smoke"
    /\ smoke_calls' = Bump(smoke_calls)
    /\ \E outcome \in {"ok", "raised"} : smoke_outcome' = outcome
    /\ pc' = [pc EXCEPT ![t] = "init_set_loaded"]
    /\ UNCHANGED <<request, model_loaded, is_initialized, loading_lock, client,
                   thread_local_client, op, attempt, result, gen_calls, first_outcome, response_text,
                   retry_outcome, retry_text>>

\* Line 149.
InitSetLoaded(t) ==
    /\ pc[t] = "init_set_loaded"
    /\ model_loaded' = TRUE
    /\ pc' = [pc EXCEPT ![t] = "init_set_initialized"]
    /\ UNCHANGED <<request, is_initialized, loading_lock, client, thread_local_client,
                   op, attempt, result, gen_calls, smoke_calls, smoke_outcome, first_outcome, response_text,
                   retry_outcome, retry_text>>

\* Lines 150-152: the second flag, then the return releases the lock.
InitSetInitialized(t) ==
    /\ pc[t] = "init_set_initialized"
    /\ is_initialized' = TRUE
    /\ loading_lock' = NoThread
    /\ EnsureReturns(t, op[t], attempt[t], TRUE)
    /\ UNCHANGED <<request, model_loaded, client, thread_local_client,
                   op, gen_calls, smoke_calls, smoke_outcome, first_outcome, response_text, retry_outcome, retry_text>>

\* Line 160, in the handler.
InitFailLoaded(t) ==
    /\ pc[t] = "init_fail_loaded"
    /\ model_loaded' = FALSE
    /\ pc' = [pc EXCEPT ![t] = "init_fail_initialized"]
    /\ UNCHANGED <<request, is_initialized, loading_lock, client, thread_local_client,
                   op, attempt, result, gen_calls, smoke_calls, smoke_outcome, first_outcome, response_text,
                   retry_outcome, retry_text>>

\* Lines 161-162: the second flag, then the return releases the lock.
InitFailInitialized(t) ==
    /\ pc[t] = "init_fail_initialized"
    /\ is_initialized' = FALSE
    /\ loading_lock' = NoThread
    /\ EnsureReturns(t, op[t], attempt[t], FALSE)
    /\ UNCHANGED <<request, model_loaded, client, thread_local_client,
                   op, gen_calls, smoke_calls, smoke_outcome, first_outcome, response_text, retry_outcome, retry_text>>

\* _run_async_fix(code, ...) runs the body of _generate_fix_async to its end.
\* Line 363: the body starts with the readiness check.
RunAsyncFixCall(t) ==
    /\ pc[t] = "idle"
    /\ op' = [op EXCEPT ![t] = "_run_async_fix"]
    /\ attempt' = [attempt EXCEPT ![t] = 0]
    /\ gen_calls' = [gen_calls EXCEPT ![t] = 0]
    /\ first_outcome' = [first_outcome EXCEPT ![t] = "none"]
    /\ retry_outcome' = [retry_outcome EXCEPT ![t] = "none"]
    /\ response_text' = [response_text EXCEPT ![t] = NoResult]
    /\ retry_text' = [retry_text EXCEPT ![t] = NoResult]
    /\ IF is_initialized
       THEN /\ pc' = [pc EXCEPT ![t] = "async_first"]
            /\ result' = [result EXCEPT ![t] = NoResult]
       ELSE Return(t, Str(Code))
    /\ UNCHANGED <<request, model_loaded, is_initialized, loading_lock, client,
                   thread_local_client, smoke_calls, smoke_outcome>>

\* Lines 414-453, once the first call has returned `response`: how the try
\* block ends and what it returns. A response without content raises at line
\* 416 and enters the handler of line 455; a rejected fix leaves the if
\* statement without a return, and the function then ends, returning None.
FirstCallEnd(code, error_type, error_message, response) ==
    IF response.tag # "str" THEN [outcome |-> "no_content", value |-> NoResult]
    ELSE LET fixed_code == _extract_gemini_fix(response, code)
         IN IF ~Truthy(fixed_code) \/ Len(Strip(fixed_code.text)) < 10
            THEN [outcome |-> "too_short", value |-> Str(code)]
            ELSE IF FixAccepted(error_type, error_message, fixed_code.text)
            THEN [outcome |-> "accepted", value |-> fixed_code]
            ELSE [outcome |-> "rejected", value |-> NoneVal]

\* FirstCallEnd for each request and each response.
FirstCallEnds ==
    [r \in 1..Len(Requests) |->
        [response \in Responses |->
            FirstCallEnd(Requests[r].code, Requests[r].error_type,
                         Requests[r].error_message, response)]]

\* Line 387 raised: the handler of line 500 returns the code.
AsyncConfigRaises(t) ==
    /\ first_outcome' = [first_outcome EXCEPT ![t] = "config_raised"]
    /\ Return(t, Str(Code))
    /\ UNCHANGED <<gen_calls, response_text>>

\* Line 399 raised AttributeError: this thread has no thread-local client, and
\* the local variable `client` stays unbound for the handler of line 455.
AsyncNoClient(t) ==
    /\ first_outcome' = [first_outcome EXCEPT ![t] = "no_client"]
    /\ pc' = [pc EXCEPT ![t] = "async_retry"]
    /\ UNCHANGED <<result, gen_calls, response_text>>

\* Line 402 raised.
AsyncCallRaises(t) ==
    /\ first_outcome' = [first_outcome EXCEPT ![t] = "call_raised"]
    /\ gen_calls' = [gen_calls EXCEPT ![t] = gen_calls[t] + 1]
    /\ pc' = [pc EXCEPT ![t] = "async_retry"]
    /\ UNCHANGED <<result, response_text>>

\* Line 402 returned a response.
AsyncResponds(t, response) ==
    LET end == FirstCallEnds[request][response]
    IN /\ first_outcome' = [first_outcome EXCEPT ![t] = end.outcome]
       /\ response_text' = [response_text EXCEPT ![t] = response]
       /\ gen_calls' = [gen_calls EXCEPT ![t] = gen_calls[t] + 1]
       /\ IF end.outcome = "no_content"
          THEN /\ pc' = [pc EXCEPT ![t] = "async_retry"]
               /\ UNCHANGED result
          ELSE Return(t, end.value)

\* Lines 368-453: the prompt, the generation config, the thread-local client
\* and the first generation call.
AsyncFirstCall(t) ==
    /\ pc[t] = "async_first"
    /\ \/ AsyncConfigRaises(t)
       \/ ~thread_local_client[t] /\ AsyncNoClient(t)
       \/ thread_local_client[t] /\ AsyncCallRaises(t)
       \/ thread_local_client[t] /\ \E response \in Responses : AsyncResponds(t, response)
    /\ UNCHANGED <<request, model_loaded, is_initialized, loading_lock, client,
                   thread_local_client, op, attempt, smoke_calls, smoke_outcome, retry_outcome, retry_text>>

\* Lines 484-498, once the retry call has returned `response`.
RetryCallEnd(code, response) ==
    IF ~Truthy(response) THEN [outcome |-> "no_content", value |-> Str(code)]
    ELSE LET fixed_code == _extract_gemini_fix(response, code)
         IN IF Truthy(fixed_code) /\ Len(Strip(fixed_code.text)) >= 10
            THEN [outcome |-> "returned", value |-> fixed_code]
            ELSE [outcome |-> "too_short", value |-> Str(code)]

\* RetryCallEnd for each request and each response.
RetryCallEnds ==
    [r \in 1..Len(Requests) |->
        [response \in Responses |-> RetryCallEnd(Requests[r].code, response)]]

\* Line 473 reads the unbound `client`: UnboundLocalError, caught at line 493.
RetryUnbound(t) ==
    /\ retry_outcome' = [retry_outcome EXCEPT ![t] = "unbound"]
    /\ Return(t, Str(Code))
    /\ UNCHANGED <<gen_calls, retry_text>>

\* Line 473 raised.
RetryCallRaises(t) ==
    /\ retry_outcome' = [retry_outcome EXCEPT ![t] = "call_raised"]
    /\ gen_calls' = [gen_calls EXCEPT ![t] = gen_calls[t] + 1]
    /\ Return(t, Str(Code))
    /\ UNCHANGED retry_text

\* Line 473 returned a response.
RetryResponds(t, response) ==
    LET end == RetryCallEnds[request][response]
    IN /\ retry_outcome' = [retry_outcome EXCEPT ![t] = end.outcome]
       /\ retry_text' = [retry_text EXCEPT ![t] = response]
       /\ gen_calls' = [gen_calls EXCEPT ![t] = gen_calls[t] + 1]
       /\ Return(t, end.value)

\* Lines 455-498: the handler of a failed first call retries once with the
\* simplified prompt, and returns the original code when that fails too.
AsyncRetryCall(t) ==
    /\ pc[t] = "async_retry"
    /\ \/ first_outcome[t] = "no_client" /\ RetryUnbound(t)
       \/ first_outcome[t] # "no_client" /\ RetryCallRaises(t)
       \/ first_outcome[t] # "no_client" /\ \E response \in Responses : RetryResponds(t, response)
    /\ UNCHANGED <<request, model_loaded, is_initialized, loading_lock, client,
                   thread_local_client, op, attempt, smoke_calls, smoke_outcome, first_outcome, response_text>>

\* One step of one thread of the remote fix model.
MLStep(t) ==
    \/ InitializeCall(t)
    \/ GenerateFixCall(t)
    \/ RunAsyncFixCall(t)
    \/ EnsureFastPath(t)
    \/ AcquireLock(t)
    \/ EnsureRecheck(t)
    \/ InitSetup(t)
    \/ InitSmokeTest(t)
    \/ InitSetLoaded(t)
    \/ InitSetInitialized(t)
    \/ InitFailLoaded(t)
    \/ InitFailInitialized(t)
    \/ AsyncFirstCall(t)
    \/ AsyncRetryCall(t)

\* ------------------------------------------------------------------------
\* Preprocessor (src/utils/preprocessor.py)
\* ------------------------------------------------------------------------

\* Codes of 1..MaxLines numbered lines.
MaxLines == 8

\* Error messages name the lines 0..MaxLineNumber.
MaxLineNumber == 12

\* Every code of up to MaxCodeLen characters over CodeAlphabet.
MaxCodeLen == 3

\* Languages with an entry in line_number_patterns; all four have the same
\* pattern, r'line\s+(\d+)'.
LineNumberLanguages == {"python", "javascript", "java", "cpp"}

\* The window radius, the default of the parameter context_lines.
context_lines == 3

LineWord == <<"l","i","n","e">>

\* int(c) of a digit character.
DigitValue(c) == CHOOSE d \in 0..9 : DigitChars[d + 1] = c

RECURSIVE ParseInt(_)
\* int(ds) of a non-empty run of digits.
ParseInt(ds) ==
    IF Len(ds) = 1 THEN DigitValue(ds[1])
    ELSE 10 * ParseInt(SubSeq(ds, 1, Len(ds) - 1)) + DigitValue(ds[Len(ds)])

RECURSIVE Decimal(_)
\* f"{i}" of a natural number.
Decimal(i) ==
    IF i < 10 THEN <<DigitChars[i + 1]>>
    ELSE Decimal(i \div 10) \o <<DigitChars[(i % 10) + 1]>>

\* End of the run of digits that starts at position i of s (i - 1 if s[i] is
\* no digit).
DigitRunEnd(s, i) ==
    IF \A j \in i..Len(s) : s[j] \in Range(DigitChars) THEN Len(s)
    ELSE Min({j \in i..Len(s) : s[j] \notin Range(DigitChars)}) - 1

\* Group 1 of r'line\s+(\d+)' when the pattern matches at position i of s,
\* the empty sequence when it does not match there.
LineNumberGroup(s, i) ==
    LET w == i + Len(LineWord)
        e == WSRunEnd(s, w)
        d == DigitRunEnd(s, e + 1)
    IN IF OccursAt(s, LineWord, i) /\ e >= w /\ d >= e + 1
       THEN SubSeq(s, e + 1, d)
       ELSE <<>>

NoLine == [tag |-> "none", value |-> 0]

\* The line-number part of _extract_error_info: the first match of the
\* language's pattern, as an integer; None without a pattern or a match.
ExtractLineNumber(error_message, language) ==
    LET matches == {i \in 1..Len(error_message) : LineNumberGroup(error_message, i) # <<>>}
    IN IF language \notin LineNumberLanguages \/ matches = {} THEN NoLine
       ELSE [tag |-> "int", value |-> ParseInt(LineNumberGroup(error_message, Min(matches)))]

\* _normalize_code without its work: the code as it came.
_normalize_code_Verbatim(code) == code

\* _normalize_code: line endings become '\n', then every line loses its
\* trailing whitespace.
_normalize_code(code) ==
    LET normalized == ReplaceAll(ReplaceAll(code, <<"\r", "\n">>, <<"\n">>), <<"\r">>, <<"\n">>)
        lines == SplitOn(normalized, "\n")
    IN JoinWith([i \in 1..Len(lines) |-> RStrip(lines[i])], <<"\n">>)

\* One line of the numbered context.
NumberedLine(i, line, line_number) ==
    (IF i = line_number THEN <<">", " ">> ELSE <<" ", " ">>) \o Decimal(i) \o <<":", " ">> \o line

\* _extract_code_context with a window that ends one line early.
_extract_code_context_ShortWindow(code, line_number) ==
    IF line_number.tag = "none" THEN code
    ELSE LET lines == SplitOn(code, "\n")
             line_index == line_number.value - 1
             start_line == Max({0, line_index - context_lines})
             end_line == Min({Len(lines), line_index + context_lines})
             numbered_context ==
                 [k \in 1..Max({0, end_line - start_line}) |->
                     NumberedLine(start_line + k, lines[start_line + k], line_number.value)]
         IN JoinWith(numbered_context, <<"\n">>)

\* _extract_code_context: the whole code without a line number, else the
\* slice lines[start_line:end_line], numbered from start_line + 1.
_extract_code_context(code, line_number) ==
    IF line_number.tag = "none" THEN code
    ELSE LET lines == SplitOn(code, "\n")
             line_index == line_number.value - 1
             start_line == Max({0, line_index - context_lines})
             end_line == Min({Len(lines), line_index + context_lines + 1})
             numbered_context ==
                 [k \in 1..Max({0, end_line - start_line}) |->
                     NumberedLine(start_line + k, lines[start_line + k], line_number.value)]
         IN JoinWith(numbered_context, <<"\n">>)

\* preprocess: the fields of the result that depend on the code and on the
\* line number.
preprocess(code, error_message, language) ==
    LET normalized_code == _normalize_code(code)
        line_number == ExtractLineNumber(error_message, language)
    IN [normalized_code |-> normalized_code,
        line_number |-> line_number,
        code_context |-> _extract_code_context(normalized_code, line_number)]

CodeAlphabet == {"a", " ", "\n", "\r"}

RECURSIVE SeqsUpTo(_, _)
\* The sequences of at most n elements of S.
SeqsUpTo(S, n) ==
    IF n = 0 THEN {<<>>}
    ELSE LET shorter == SeqsUpTo(S, n - 1)
         IN shorter \cup {Append(q, c) : q \in {r \in shorter : Len(r) = n - 1}, c \in S}

\* A code of n lines, line i being "s<i>", with the given line ending.
NumberedCode(n, ending) ==
    JoinWith([i \in 1..n |-> <<"s">> \o Decimal(i)], ending)

\* The codes given to preprocess.
Codes ==
    SeqsUpTo(CodeAlphabet, MaxCodeLen)
        \cup {NumberedCode(n, ending) : n \in 1..MaxLines, ending \in {<<"\n">>, <<"\r", "\n">>}}

\* Error messages that name a line in a way the pattern finds.
LineMessages ==
    UNION {{ <<"l","i","n","e"," ">> \o Decimal(n),
             <<"F","i","l","e"," ","\"","t",".","p","y","\"",","," ","l","i","n","e"," "," ">> \o Decimal(n) \o <<","," ","i","n"," ","f">>,
             <<"a","t"," ","l","i","n","e","\t","0">> \o Decimal(n) \o <<" ","a","n","d"," ","l","i","n","e"," ","9","9">> } : n \in 0..MaxLineNumber}

\* Error messages without a match of the pattern.
NoLineMessages ==
    { <<>>, <<"S","y","n","t","a","x","E","r","r","o","r",":"," ","i","n","v","a","l","i","d"," ","s","y","n","t","a","x">>, <<"L","i","n","e"," ","3">>, <<"l","i","n","e","3">>, <<"l","i","n","e"," ","x"," ","4">>, <<"o","n"," ","l","i","n","e"," ","-","1">> }

ErrorMessages == LineMessages \cup NoLineMessages

Languages == LineNumberLanguages \cup {"ruby"}

NoData == [normalized_code |-> <<>>, line_number |-> NoLine, code_context |-> <<"?">>]

VARIABLES
    pp_code,             \* preprocess: the argument code
    pp_error_message,    \* preprocess: the argument error_message
    pp_language,         \* preprocess: the argument language
    pp_called,           \* preprocess has returned
    preprocessed_data    \* what preprocess returned

ppVars == <<pp_code, pp_error_message, pp_language, pp_called, preprocessed_data>>

\* No call of preprocess is under way.
PPIdle ==
    /\ pp_code = <<>>
    /\ pp_error_message = <<>>
    /\ pp_language = "python"
    /\ pp_called = FALSE
    /\ preprocessed_data = NoData

\* A call of preprocess with its arguments.
PPInit ==
    /\ pp_code \in Codes
    /\ pp_error_message \in ErrorMessages
    /\ pp_language \in Languages
    /\ pp_called = FALSE
    /\ preprocessed_data = NoData

\* preprocess(code, error_message, language) returns.
Preprocess ==
    /\ ~pp_called
    /\ pp_called' = TRUE
    /\ preprocessed_data' = preprocess(pp_code, pp_error_message, pp_language)
    /\ UNCHANGED <<pp_code, pp_error_message, pp_language>>

\* ------------------------------------------------------------------------
\* ErrorClassifier (src/models/error_classifier.py)
\* ------------------------------------------------------------------------

\* Messages of up to MaxWords lexemes.
MaxWords == 2

\* error_types, in the order of the dictionary. A pattern is a sequence of
\* words with \s+ between them; the sweep searches the lower-cased text with
\* re.IGNORECASE, so the words are compared in lower case.
error_types ==
    <<
       [kind |-> "syntax_error", patterns |-> <<
           <<<<"s","y","n","t","a","x">>, <<"e","r","r","o","r">>>>,
           <<<<"i","n","v","a","l","i","d">>, <<"s","y","n","t","a","x">>>>,
           <<<<"u","n","e","x","p","e","c","t","e","d">>>>,
           <<<<"t","o","k","e","n">>, <<"e","r","r","o","r">>>>,
           <<<<"p","a","r","s","i","n","g">>, <<"e","r","r","o","r">>>>,
           <<<<"s","y","n","t","a","x","e","r","r","o","r">>>>,
           <<<<"e","x","p","e","c","t","e","d">>>> >>],
       [kind |-> "type_error", patterns |-> <<
           <<<<"t","y","p","e">>, <<"e","r","r","o","r">>>>,
           <<<<"c","a","n","n","o","t">>, <<"c","o","n","v","e","r","t">>>>,
           <<<<"n","o","t">>, <<"i","t","e","r","a","b","l","e">>>>,
           <<<<"n","o","t">>, <<"c","a","l","l","a","b","l","e">>>>,
           <<<<"n","o","t">>, <<"s","u","b","s","c","r","i","p","t","a","b","l","e">>>>,
           <<<<"n","o","n","e","t","y","p","e">>>>,
           <<<<"t","y","p","e","e","r","r","o","r">>>>,
           <<<<"u","n","s","u","p","p","o","r","t","e","d">>, <<"o","p","e","r","a","n","d">>>>,
           <<<<"o","b","j","e","c","t">>, <<"i","s">>, <<"n","o","t">>>>,
           <<<<"m","u","s","t">>, <<"b","e">>>> >>],
       [kind |-> "name_error", patterns |-> <<
           <<<<"n","a","m","e">>, <<"e","r","r","o","r">>>>,
           <<<<"u","n","d","e","f","i","n","e","d">>>>,
           <<<<"n","o","t">>, <<"d","e","f","i","n","e","d">>>>,
           <<<<"u","n","k","n","o","w","n">>, <<"v","a","r","i","a","b","l","e">>>>,
           <<<<"u","n","k","n","o","w","n">>, <<"i","d","e","n","t","i","f","i","e","r">>>>,
           <<<<"n","a","m","e","e","r","r","o","r">>>> >>],
       [kind |-> "index_error", patterns |-> <<
           <<<<"i","n","d","e","x">>, <<"e","r","r","o","r">>>>,
           <<<<"o","u","t">>, <<"o","f">>, <<"r","a","n","g","e">>>>,
           <<<<"i","n","d","e","x">>, <<"o","u","t">>, <<"o","f">>, <<"b","o","u","n","d","s">>>>,
           <<<<"a","r","r","a","y">>, <<"i","n","d","e","x">>, <<"o","u","t">>>>,
           <<<<"l","i","s","t">>, <<"i","n","d","e","x">>, <<"o","u","t">>>>,
           <<<<"i","n","d","e","x","e","r","r","o","r">>>> >>],
       [kind |-> "key_error", patterns |-> <<
           <<<<"k","e","y">>, <<"e","r","r","o","r">>>>,
           <<<<"n","o">>, <<"s","u","c","h">>, <<"k","e","y">>>>,
           <<<<"k","e","y">>, <<"n","o","t">>, <<"f","o","u","n","d">>>>,
           <<<<"i","n","v","a","l","i","d">>, <<"k","e","y">>>>,
           <<<<"m","i","s","s","i","n","g">>, <<"k","e","y">>>>,
           <<<<"k","e","y","e","r","r","o","r">>>>,
           <<<<"d","i","c","t","i","o","n","a","r","y">>>> >>],
       [kind |-> "value_error", patterns |-> <<
           <<<<"v","a","l","u","e">>, <<"e","r","r","o","r">>>>,
           <<<<"i","n","v","a","l","i","d">>, <<"v","a","l","u","e">>>>,
           <<<<"i","n","v","a","l","i","d">>, <<"l","i","t","e","r","a","l">>>>,
           <<<<"i","n","v","a","l","i","d">>, <<"a","r","g","u","m","e","n","t">>>>,
           <<<<"i","n","v","a","l","i","d">>, <<"p","a","r","a","m","e","t","e","r">>>> >>],
       [kind |-> "attribute_error", patterns |-> <<
           <<<<"a","t","t","r","i","b","u","t","e">>, <<"e","r","r","o","r">>>>,
           <<<<"n","o">>, <<"a","t","t","r","i","b","u","t","e">>>>,
           <<<<"h","a","s">>, <<"n","o">>, <<"a","t","t","r","i","b","u","t","e">>>>,
           <<<<"u","n","d","e","f","i","n","e","d">>, <<"p","r","o","p","e","r","t","y">>>>,
           <<<<"u","n","k","n","o","w","n">>, <<"p","r","o","p","e","r","t","y">>>> >>],
       [kind |-> "import_error", patterns |-> <<
           <<<<"i","m","p","o","r","t">>, <<"e","r","r","o","r">>>>,
           <<<<"n","o">>, <<"m","o","d","u","l","e">>>>,
           <<<<"c","a","n","n","o","t">>, <<"f","i","n","d">>, <<"m","o","d","u","l","e">>>>,
           <<<<"m","o","d","u","l","e">>, <<"n","o","t">>, <<"f","o","u","n","d">>>>,
           <<<<"p","a","c","k","a","g","e">>, <<"n","o","t">>, <<"f","o","u","n","d">>>> >>],
       [kind |-> "io_error", patterns |-> <<
           <<<<"i","o">>, <<"e","r","r","o","r">>>>,
           <<<<"f","i","l","e">>, <<"n","o","t">>, <<"f","o","u","n","d">>>>,
           <<<<"n","o">>, <<"s","u","c","h">>, <<"f","i","l","e">>>>,
           <<<<"p","e","r","m","i","s","s","i","o","n">>, <<"d","e","n","i","e","d">>>>,
           <<<<"a","c","c","e","s","s">>, <<"d","e","n","i","e","d">>>> >>],
       [kind |-> "memory_error", patterns |-> <<
           <<<<"m","e","m","o","r","y">>, <<"e","r","r","o","r">>>>,
           <<<<"o","u","t">>, <<"o","f">>, <<"m","e","m","o","r","y">>>>,
           <<<<"m","e","m","o","r","y">>, <<"a","l","l","o","c","a","t","i","o","n">>>>,
           <<<<"s","t","a","c","k">>, <<"o","v","e","r","f","l","o","w">>>>,
           <<<<"h","e","a","p">>, <<"o","v","e","r","f","l","o","w">>>> >>],
       [kind |-> "runtime_error", patterns |-> <<
           <<<<"r","u","n","t","i","m","e">>, <<"e","r","r","o","r">>>>,
           <<<<"e","x","c","e","p","t","i","o","n">>, <<"o","c","c","u","r","r","e","d">>>>,
           <<<<"u","n","e","x","p","e","c","t","e","d">>, <<"e","r","r","o","r">>>>,
           <<<<"f","a","t","a","l">>, <<"e","r","r","o","r">>>>,
           <<<<"c","r","i","t","i","c","a","l">>, <<"e","r","r","o","r">>>> >>],
       [kind |-> "logic_error", patterns |-> <<
           <<<<"l","o","g","i","c">>, <<"e","r","r","o","r">>>>,
           <<<<"a","s","s","e","r","t","i","o","n">>, <<"e","r","r","o","r">>>>,
           <<<<"a","s","s","e","r","t","i","o","n">>, <<"f","a","i","l","e","d">>>>,
           <<<<"c","o","n","d","i","t","i","o","n">>, <<"f","a","i","l","e","d">>>>,
           <<<<"i","n","v","a","r","i","a","n","t">>, <<"v","i","o","l","a","t","e","d">>>> >>],
       [kind |-> "null_pointer", patterns |-> <<
           <<<<"n","u","l","l">>, <<"p","o","i","n","t","e","r">>>>,
           <<<<"n","u","l","l">>, <<"r","e","f","e","r","e","n","c","e">>>>,
           <<<<"n","u","l","l","p","o","i","n","t","e","r","e","x","c","e","p","t","i","o","n">>>>,
           <<<<"d","e","r","e","f","e","r","e","n","c","i","n","g">>, <<"n","u","l","l">>>>,
           <<<<"n","u","l","l">>, <<"o","b","j","e","c","t">>>> >>],
       [kind |-> "division_by_zero", patterns |-> <<
           <<<<"d","i","v","i","s","i","o","n">>, <<"b","y">>, <<"z","e","r","o">>>>,
           <<<<"d","i","v","i","d","e">>, <<"b","y">>, <<"z","e","r","o">>>>,
           <<<<"z","e","r","o">>, <<"d","i","v","i","s","i","o","n">>>>,
           <<<<"d","i","v","i","d","e","d">>, <<"b","y">>, <<"z","e","r","o">>>>,
           <<<<"m","o","d","u","l","o">>, <<"b","y">>, <<"z","e","r","o">>>> >>],
       [kind |-> "overflow_error", patterns |-> <<
           <<<<"o","v","e","r","f","l","o","w">>>>,
           <<<<"i","n","t","e","g","e","r">>, <<"o","v","e","r","f","l","o","w">>>>,
           <<<<"a","r","i","t","h","m","e","t","i","c">>, <<"o","v","e","r","f","l","o","w">>>>,
           <<<<"b","u","f","f","e","r">>, <<"o","v","e","r","f","l","o","w">>>>,
           <<<<"s","t","a","c","k">>, <<"o","v","e","r","f","l","o","w">>>> >>],
       [kind |-> "timeout_error", patterns |-> <<
           <<<<"t","i","m","e","o","u","t">>>>,
           <<<<"t","i","m","e">>, <<"l","i","m","i","t">>>>,
           <<<<"e","x","e","c","u","t","i","o","n">>, <<"t","i","m","e">>>>,
           <<<<"d","e","a","d","l","i","n","e">>, <<"e","x","c","e","e","d","e","d">>>>,
           <<<<"r","e","q","u","e","s","t">>, <<"t","i","m","e","o","u","t">>>> >>],
       [kind |-> "connection_error", patterns |-> <<
           <<<<"c","o","n","n","e","c","t","i","o","n">>, <<"e","r","r","o","r">>>>,
           <<<<"n","e","t","w","o","r","k">>, <<"e","r","r","o","r">>>>,
           <<<<"s","o","c","k","e","t">>, <<"e","r","r","o","r">>>>,
           <<<<"c","o","n","n","e","c","t","i","o","n">>, <<"r","e","f","u","s","e","d">>>>,
           <<<<"c","o","n","n","e","c","t","i","o","n">>, <<"t","i","m","e","o","u","t">>>> >>],
       [kind |-> "permission_error", patterns |-> <<
           <<<<"p","e","r","m","i","s","s","i","o","n">>, <<"e","r","r","o","r">>>>,
           <<<<"a","c","c","e","s","s">>, <<"d","e","n","i","e","d">>>>,
           <<<<"f","o","r","b","i","d","d","e","n">>>>,
           <<<<"u","n","a","u","t","h","o","r","i","z","e","d">>>>,
           <<<<"n","o","t">>, <<"a","l","l","o","w","e","d">>>> >>],
       [kind |-> "dependency_error", patterns |-> <<
           <<<<"d","e","p","e","n","d","e","n","c","y">>, <<"e","r","r","o","r">>>>,
           <<<<"v","e","r","s","i","o","n">>, <<"c","o","n","f","l","i","c","t">>>>,
           <<<<"i","n","c","o","m","p","a","t","i","b","l","e">>>>,
           <<<<"m","i","s","s","i","n","g">>, <<"d","e","p","e","n","d","e","n","c","y">>>>,
           <<<<"l","i","b","r","a","r","y">>, <<"c","o","n","f","l","i","c","t">>>> >>] >>

\* The exception names with 'KeyError' tested before 'TypeError'.
DirectNames_KeyErrorFirst ==
    << [kind |-> "syntax_error", patterns |-> <<<<"S","y","n","t","a","x","E","r","r","o","r">>>>],
       [kind |-> "key_error", patterns |-> <<<<"K","e","y","E","r","r","o","r">>>>],
       [kind |-> "type_error", patterns |-> <<<<"T","y","p","e","E","r","r","o","r">>>>],
       [kind |-> "index_error", patterns |-> <<<<"I","n","d","e","x","E","r","r","o","r">>>>],
       [kind |-> "name_error", patterns |-> <<<<"N","a","m","e","E","r","r","o","r">>>>],
       [kind |-> "division_by_zero", patterns |-> <<<<"Z","e","r","o","D","i","v","i","s","i","o","n","E","r","r","o","r">>>>],
       [kind |-> "attribute_error", patterns |-> <<<<"A","t","t","r","i","b","u","t","e","E","r","r","o","r">>>>],
       [kind |-> "reference_error", patterns |-> <<<<"R","e","f","e","r","e","n","c","e","E","r","r","o","r">>>>] >>

\* The exception names tested first, in the original case.
DirectNames ==
    << [kind |-> "syntax_error", patterns |-> <<<<"S","y","n","t","a","x","E","r","r","o","r">>>>],
       [kind |-> "type_error", patterns |-> <<<<"T","y","p","e","E","r","r","o","r">>>>],
       [kind |-> "key_error", patterns |-> <<<<"K","e","y","E","r","r","o","r">>>>],
       [kind |-> "index_error", patterns |-> <<<<"I","n","d","e","x","E","r","r","o","r">>>>],
       [kind |-> "name_error", patterns |-> <<<<"N","a","m","e","E","r","r","o","r">>>>],
       [kind |-> "division_by_zero", patterns |-> <<<<"Z","e","r","o","D","i","v","i","s","i","o","n","E","r","r","o","r">>>>],
       [kind |-> "attribute_error", patterns |-> <<<<"A","t","t","r","i","b","u","t","e","E","r","r","o","r">>>>],
       [kind |-> "reference_error", patterns |-> <<<<"R","e","f","e","r","e","n","c","e","E","r","r","o","r">>>>] >>

\* The keywords tested in the lower-cased message.
Keywords ==
    << [kind |-> "syntax_error", patterns |-> <<<<"s","y","n","t","a","x">>, <<"i","n","v","a","l","i","d"," ","s","y","n","t","a","x">>, <<"u","n","e","x","p","e","c","t","e","d">>>>],
       [kind |-> "type_error", patterns |-> <<<<"t","y","p","e">>, <<"c","a","n","n","o","t"," ","c","o","n","v","e","r","t">>, <<"n","o","t"," ","i","t","e","r","a","b","l","e">>>>],
       [kind |-> "key_error", patterns |-> <<<<"k","e","y">>, <<"d","i","c","t","i","o","n","a","r","y">>>>] >>

\* The pattern `words` matches at position i of the text.
RECURSIVE WordsMatchAt(_, _, _)
WordsMatchAt(text, i, words) ==
    /\ OccursAt(text, Head(words), i)
    /\ \/ Len(words) = 1
       \/ LET w == i + Len(Head(words))
              e == WSRunEnd(text, w)
          IN e >= w /\ WordsMatchAt(text, e + 1, Tail(words))

\* re.search(pattern, text, re.IGNORECASE) on a lower-cased text.
PatternSearch(text, words) == \E i \in 1..Len(text) : WordsMatchAt(text, i, words)

\* The kind of the first row of the table `rows` one of whose entries is in
\* `found`, else `otherwise`.
FirstKind(rows, found, otherwise) ==
    LET hits == {k \in 1..Len(rows) : \E j \in 1..Len(rows[k].patterns) : rows[k].patterns[j] \in found}
    IN IF hits = {} THEN otherwise ELSE rows[Min(hits)].kind

\* The entries of the table `rows`.
Entries(rows) == UNION {Range(rows[k].patterns) : k \in 1..Len(rows)}

\* The exception name tests of classify and of _classify_with_rules: the
\* kind of the first name the message contains, else `otherwise`.
DirectKind(error_message, otherwise) ==
    FirstKind(DirectNames, {name \in Entries(DirectNames) : Contains(error_message, name)},
              otherwise)

\* _classify_with_rules: the exception names again, the keywords, then the
\* sweep of error_types over the message and the context.
_classify_with_rules(error_message, code_context) ==
    LET error_message_lower == Lower(error_message)
        combined_text == Lower(error_message \o <<" ">> \o code_context)
    IN DirectKind(error_message,
           FirstKind(Keywords, {word \in Entries(Keywords) : Contains(error_message_lower, word)},
               FirstKind(error_types,
                         {words \in Entries(error_types) : PatternSearch(combined_text, words)},
                         "unknown_error")))

\* classify without the test for the empty message.
classify_NoEmptyTest(error_message, code_context) ==
    DirectKind(error_message, _classify_with_rules(error_message, code_context))

\* classify: the exception names, 'unknown' for the empty message, then the
\* rules (the trained model is disabled).
classify(error_message, code_context) ==
    DirectKind(error_message,
               IF error_message = <<>> THEN "unknown"
               ELSE _classify_with_rules(error_message, code_context))

\* The lexemes error messages are made of.
Lexemes ==
    { <<"S","y","n","t","a","x","E","r","r","o","r">>,
      <<"R","e","f","e","r","e","n","c","e","E","r","r","o","r">>,
      <<"t","y","p","e","e","r","r","o","r">>,
      <<"I","n","d","e","n","t","a","t","i","o","n","E","r","r","o","r">>,
      <<"I","m","p","o","r","t","E","r","r","o","r">>,
      <<"u","n","e","x","p","e","c","t","e","d"," ","i","n","d","e","n","t">>,
      <<"f","i","l","e"," ","n","o","t">>,
      <<"f","o","u","n","d">>,
      <<"i","n","v","a","l","i","d">>,
      <<"v","a","l","u","e">>,
      <<"n","o"," ","m","o","d","u","l","e">>,
      <<"u","n","d","e","f","i","n","e","d">>,
      <<"d","i","v","i","d","e"," ","b","y">>,
      <<"z","e","r","o">>,
      <<"i","n","t","e","g","e","r"," ","o","v","e","r","f","l","o","w">>,
      <<"T","i","m","e","o","u","t">>,
      <<"f","o","r","b","i","d","d","e","n">>,
      <<"i","n","c","o","m","p","a","t","i","b","l","e">>,
      <<"n","u","l","l"," "," ","p","o","i","n","t","e","r">>,
      <<"a","s","s","e","r","t","i","o","n"," ","f","a","i","l","e","d">>,
      <<"c","o","n","n","e","c","t","i","o","n"," ","r","e","f","u","s","e","d">>,
      <<"f","a","t","a","l"," ","e","r","r","o","r">>,
      <<"o","u","t"," ","o","f">>,
      <<"m","e","m","o","r","y">>,
      <<"r","a","n","g","e">> }

RECURSIVE MessagesOf(_)
\* The messages of exactly n lexemes, a space between two of them.
MessagesOf(n) ==
    IF n = 0 THEN {<<>>}
    ELSE IF n = 1 THEN Lexemes
    ELSE {m \o <<" ">> \o w : m \in MessagesOf(n - 1), w \in Lexemes}

\* The exception names classify looks for.
ExceptionNames == {DirectNames[k].patterns[1] : k \in 1..Len(DirectNames)}

\* Messages with exception names: a name, ': ' and a name in quotes, and a
\* name after words the keyword tests and the pattern sweep react to.
NamingMessages ==
    {a \o <<":"," ","'">> \o b \o <<"'">> : a \in ExceptionNames, b \in ExceptionNames}
        \cup {w \o <<" ">> \o a :
                 w \in { <<"u","n","e","x","p","e","c","t","e","d"," ","i","n","d","e","n","t">>,
                         <<"t","y","p","e","e","r","r","o","r">>,
                         <<"d","i","c","t","i","o","n","a","r","y"," ","k","e","y">>,
                         <<"o","u","t"," ","o","f"," ","m","e","m","o","r","y">> },
                 a \in ExceptionNames}

\* The messages given to classify.
ClassifierMessages == UNION {MessagesOf(n) : n \in 0..MaxWords} \cup NamingMessages

\* The code contexts given to classify.
ClassifierContexts == { <<>>, <<"d"," ","="," ","{","}","\n","n","o","t"," "," ","D","E","F","I","N","E","D">> }

VARIABLES
    ec_error_message,   \* classify: preprocessed_data['error_message']
    ec_code_context,    \* classify: preprocessed_data['code_context']
    ec_called,          \* classify has returned
    ec_error_type       \* what classify returned

ecVars == <<ec_error_message, ec_code_context, ec_called, ec_error_type>>

\* No call of classify is under way.
ECIdle ==
    /\ ec_error_message = <<>>
    /\ ec_code_context = <<>>
    /\ ec_called = FALSE
    /\ ec_error_type = "none"

\* A call of classify with its arguments.
ECInit ==
    /\ ec_error_message \in ClassifierMessages
    /\ ec_code_context \in ClassifierContexts
    /\ ec_called = FALSE
    /\ ec_error_type = "none"

\* classify(preprocessed_data) returns.
Classify ==
    /\ ~ec_called
    /\ ec_called' = TRUE
    /\ ec_error_type' = classify(ec_error_message, ec_code_context)
    /\ UNCHANGED <<ec_error_message, ec_code_context>>

\* ------------------------------------------------------------------------
\* SolutionGenerator (src/models/solution_gen.py)
\* ------------------------------------------------------------------------

\* solution_templates, the entries that are dictionaries: for an error kind
\* and an issue type, the list of templates.
solution_templates ==
    [
     syntax_error |-> [
        missing_parenthesis |->
            << [description |-> "Add the missing parenthesis", code_template |-> <<"R","e","p","l","a","c","e"," ","{","c","o","d","e","_","s","n","i","p","p","e","t","}"," ","w","i","t","h"," ","{","f","i","x","e","d","_","c","o","d","e","}">>] >>,
        missing_bracket |->
            << [description |-> "Add the missing bracket", code_template |-> <<"R","e","p","l","a","c","e"," ","{","c","o","d","e","_","s","n","i","p","p","e","t","}"," ","w","i","t","h"," ","{","f","i","x","e","d","_","c","o","d","e","}">>] >>,
        missing_brace |->
            << [description |-> "Add the missing brace", code_template |-> <<"R","e","p","l","a","c","e"," ","{","c","o","d","e","_","s","n","i","p","p","e","t","}"," ","w","i","t","h"," ","{","f","i","x","e","d","_","c","o","d","e","}">>] >>,
        missing_colon |->
            << [description |-> "Add a colon after the control statement", code_template |-> <<"R","e","p","l","a","c","e"," ","{","c","o","d","e","_","s","n","i","p","p","e","t","}"," ","w","i","t","h"," ","{","c","o","d","e","_","s","n","i","p","p","e","t","}",":">>] >>,
        invalid_indentation |->
            << [description |-> "Fix the indentation", code_template |-> <<"E","n","s","u","r","e"," ","c","o","n","s","i","s","t","e","n","t"," ","i","n","d","e","n","t","a","t","i","o","n"," ","t","h","r","o","u","g","h","o","u","t"," ","y","o","u","r"," ","c","o","d","e">>] >>,
        default |->
            << [description |-> "Check for missing punctuation or incorrect syntax", code_template |-> <<"R","e","v","i","e","w"," ","y","o","u","r"," ","c","o","d","e"," ","f","o","r"," ","s","y","n","t","a","x"," ","e","r","r","o","r","s">>] >> ],
     type_error |-> [
        string_as_number |->
            << [description |-> "Convert the string to a number before performing arithmetic", code_template |-> <<"R","e","p","l","a","c","e"," ","{","c","o","d","e","_","s","n","i","p","p","e","t","}"," ","w","i","t","h"," ","i","n","t","(","{","c","o","d","e","_","s","n","i","p","p","e","t","}",")"," ","o","r"," ","f","l","o","a","t","(","{","c","o","d","e","_","s","n","i","p","p","e","t","}",")">>] >>,
        none_operation |->
            << [description |-> "Check if the variable is None before performing operations", code_template |-> <<"i","f"," ","{","v","a","r","i","a","b","l","e","}"," ","i","s"," ","n","o","t"," ","N","o","n","e",":","\n"," "," "," "," ","#"," ","P","e","r","f","o","r","m"," ","o","p","e","r","a","t","i","o","n"," ","w","i","t","h"," ","{","v","a","r","i","a","b","l","e","}">>] >>,
        wrong_function_args |->
            << [description |-> "Check the function documentation for the correct arguments", code_template |-> <<"E","n","s","u","r","e"," ","t","h","e"," ","a","r","g","u","m","e","n","t","s"," ","p","a","s","s","e","d"," ","t","o"," ","{","f","u","n","c","t","i","o","n","_","n","a","m","e","}"," ","a","r","e"," ","o","f"," ","t","h","e"," ","c","o","r","r","e","c","t"," ","t","y","p","e">>] >>,
        non_iterable |->
            << [description |-> "Ensure the object is iterable before using it in a loop", code_template |-> <<"M","a","k","e"," ","s","u","r","e"," ","{","v","a","r","i","a","b","l","e","}"," ","i","s"," ","a"," ","l","i","s","t",","," ","t","u","p","l","e",","," ","o","r"," ","o","t","h","e","r"," ","i","t","e","r","a","b","l","e"," ","t","y","p","e">>] >>,
        default |->
            << [description |-> "Check the types of your variables before operations", code_template |-> <<"U","s","e"," ","t","y","p","e","(",")"," ","t","o"," ","c","h","e","c","k"," ","v","a","r","i","a","b","l","e"," ","t","y","p","e","s"," ","a","n","d"," ","c","o","n","v","e","r","t"," ","i","f"," ","n","e","c","e","s","s","a","r","y">>] >> ],
     name_error |-> [
        undefined_variable |->
            << [description |-> "Define the variable before using it", code_template |-> <<"{","v","a","r","i","a","b","l","e","_","n","a","m","e","}"," ","="," ","v","a","l","u","e"," "," ","#"," ","D","e","f","i","n","e"," ","t","h","e"," ","v","a","r","i","a","b","l","e"," ","f","i","r","s","t">>] >>,
        misspelled_variable |->
            << [description |-> "Check for typos in variable names", code_template |-> <<"#"," ","C","o","r","r","e","c","t"," ","t","h","e"," ","s","p","e","l","l","i","n","g"," ","o","f"," ","t","h","e"," ","v","a","r","i","a","b","l","e"," ","n","a","m","e">>] >>,
        wrong_scope |->
            << [description |-> "Make sure the variable is accessible in the current scope", code_template |-> <<"#"," ","D","e","f","i","n","e"," ","t","h","e"," ","v","a","r","i","a","b","l","e"," ","i","n"," ","t","h","e"," ","a","p","p","r","o","p","r","i","a","t","e"," ","s","c","o","p","e"," ","o","r"," ","p","a","s","s"," ","i","t"," ","a","s"," ","a"," ","p","a","r","a","m","e","t","e","r">>] >>,
        default |->
            << [description |-> "Define all variables before using them", code_template |-> <<"#"," ","E","n","s","u","r","e"," ","a","l","l"," ","v","a","r","i","a","b","l","e","s"," ","a","r","e"," ","d","e","f","i","n","e","d"," ","b","e","f","o","r","e"," ","u","s","e">>] >> ],
     index_error |-> [
        out_of_bounds |->
            << [description |-> "Check that the index is within the valid range", code_template |-> <<"i","f"," ","0"," ","<","="," ","{","i","n","d","e","x","}"," ","<"," ","l","e","n","(","{","l","i","s","t","_","n","a","m","e","}",")",":","\n"," "," "," "," ","#"," ","A","c","c","e","s","s"," ","{","l","i","s","t","_","n","a","m","e","}","[","{","i","n","d","e","x","}","]">>] >>,
        empty_list |->
            << [description |-> "Check if the list is empty before accessing elements", code_template |-> <<"i","f"," ","{","l","i","s","t","_","n","a","m","e","}",":","\n"," "," "," "," ","#"," ","A","c","c","e","s","s"," ","e","l","e","m","e","n","t","s"," ","o","f"," ","{","l","i","s","t","_","n","a","m","e","}">>] >>,
        wrong_loop_condition |->
            << [description |-> "Fix the loop condition to prevent out-of-bounds access", code_template |-> <<"f","o","r"," ","i"," ","i","n"," ","r","a","n","g","e","(","l","e","n","(","{","l","i","s","t","_","n","a","m","e","}",")",")",":","\n"," "," "," "," ","#"," ","A","c","c","e","s","s"," ","{","l","i","s","t","_","n","a","m","e","}","[","i","]">>] >>,
        default |->
            << [description |-> "Ensure indices are within the valid range", code_template |-> <<"#"," ","C","h","e","c","k"," ","l","i","s","t"," ","l","e","n","g","t","h"," ","b","e","f","o","r","e"," ","a","c","c","e","s","s","i","n","g"," ","e","l","e","m","e","n","t","s">>] >> ],
     key_error |-> [
        missing_key |->
            << [description |-> "Check if the key exists before accessing it", code_template |-> <<"i","f"," ","\"","{","k","e","y","}","\""," ","i","n"," ","{","d","i","c","t","_","n","a","m","e","}",":","\n"," "," "," "," ","#"," ","A","c","c","e","s","s"," ","{","d","i","c","t","_","n","a","m","e","}","[","\"","{","k","e","y","}","\"","]">>],
               [description |-> "Use the .get() method to provide a default value", code_template |-> <<"v","a","l","u","e"," ","="," ","{","d","i","c","t","_","n","a","m","e","}",".","g","e","t","(","\"","{","k","e","y","}","\"",","," ","d","e","f","a","u","l","t","_","v","a","l","u","e",")">>] >>,
        wrong_key_type |->
            << [description |-> "Ensure the key is of the correct type", code_template |-> <<"#"," ","C","o","n","v","e","r","t"," ","t","h","e"," ","k","e","y"," ","t","o"," ","t","h","e"," ","a","p","p","r","o","p","r","i","a","t","e"," ","t","y","p","e">>] >>,
        default |->
            << [description |-> "Check if keys exist before accessing them", code_template |-> <<"#"," ","U","s","e"," ","t","h","e"," ","\"","i","n","\""," ","o","p","e","r","a","t","o","r"," ","o","r"," ",".","g","e","t","(",")"," ","m","e","t","h","o","d"," ","f","o","r"," ","s","a","f","e"," ","d","i","c","t","i","o","n","a","r","y"," ","a","c","c","e","s","s">>] >> ],
     division_by_zero |-> [
        explicit_zero_division |->
            << [description |-> "Avoid dividing by zero", code_template |-> <<"#"," ","R","e","p","l","a","c","e"," ","t","h","e"," ","z","e","r","o"," ","d","i","v","i","s","o","r"," ","w","i","t","h"," ","a"," ","n","o","n","-","z","e","r","o"," ","v","a","l","u","e">>] >>,
        variable_zero_division |->
            << [description |-> "Check if the divisor is zero before dividing", code_template |-> <<"i","f"," ","{","d","i","v","i","s","o","r","}"," ","!","="," ","0",":","\n"," "," "," "," ","r","e","s","u","l","t"," ","="," ","{","d","i","v","i","d","e","n","d","}"," ","/"," ","{","d","i","v","i","s","o","r","}","\n","e","l","s","e",":","\n"," "," "," "," ","#"," ","H","a","n","d","l","e"," ","t","h","e"," ","z","e","r","o"," ","d","i","v","i","s","o","r"," ","c","a","s","e">>] >>,
        default |->
            << [description |-> "Always check for zero before division", code_template |-> <<"#"," ","A","d","d"," ","a"," ","c","o","n","d","i","t","i","o","n"," ","t","o"," ","c","h","e","c","k"," ","f","o","r"," ","z","e","r","o"," ","d","i","v","i","s","o","r">>] >> ],
     attribute_error |-> [
        undefined_attribute |->
            << [description |-> "Check if the attribute exists on the object", code_template |-> <<"i","f"," ","h","a","s","a","t","t","r","(","{","o","b","j","e","c","t","}",","," ","\"","{","a","t","t","r","i","b","u","t","e","}","\"",")",":","\n"," "," "," "," ","#"," ","A","c","c","e","s","s"," ","{","o","b","j","e","c","t","}",".","{","a","t","t","r","i","b","u","t","e","}">>] >>,
        none_attribute |->
            << [description |-> "Check if the object is None before accessing attributes", code_template |-> <<"i","f"," ","{","o","b","j","e","c","t","}"," ","i","s"," ","n","o","t"," ","N","o","n","e",":","\n"," "," "," "," ","#"," ","A","c","c","e","s","s"," ","{","o","b","j","e","c","t","}",".","{","a","t","t","r","i","b","u","t","e","}">>] >>,
        default |->
            << [description |-> "Ensure the object has the attribute you're trying to access", code_template |-> <<"#"," ","C","h","e","c","k"," ","o","b","j","e","c","t"," ","t","y","p","e"," ","a","n","d"," ","a","v","a","i","l","a","b","l","e"," ","a","t","t","r","i","b","u","t","e","s">>] >> ] ]

\* solution_templates['default']: a list, not a dictionary.
DefaultTemplates ==
    << [description |-> "Review your code for logical errors", code_template |-> <<"#"," ","D","e","b","u","g"," ","y","o","u","r"," ","c","o","d","e"," ","t","o"," ","i","d","e","n","t","i","f","y"," ","t","h","e"," ","i","s","s","u","e">>] >>

\* The chain of tests of _determine_issue_type: the substrings that must all
\* occur in the lower-cased root cause, and the issue type returned.
IssueRules ==
    << [needs |-> {<<"m","i","s","s","i","n","g"," ","p","a","r","e","n","t","h","e","s","i","s">>}, issue |-> "missing_parenthesis"],
       [needs |-> {<<"m","i","s","s","i","n","g"," ","b","r","a","c","k","e","t">>}, issue |-> "missing_bracket"],
       [needs |-> {<<"m","i","s","s","i","n","g"," ","b","r","a","c","e">>}, issue |-> "missing_brace"],
       [needs |-> {<<"m","i","s","s","i","n","g"," ","c","o","l","o","n">>}, issue |-> "missing_colon"],
       [needs |-> {<<"i","n","d","e","n","t","a","t","i","o","n">>}, issue |-> "invalid_indentation"],
       [needs |-> {<<"s","t","r","i","n","g"," ","a","s"," ","a"," ","n","u","m","b","e","r">>}, issue |-> "string_as_number"],
       [needs |-> {<<"n","o","n","e">>}, issue |-> "none_operation"],
       [needs |-> {<<"i","n","c","o","r","r","e","c","t"," ","a","r","g","u","m","e","n","t","s">>}, issue |-> "wrong_function_args"],
       [needs |-> {<<"n","o","n","-","i","t","e","r","a","b","l","e">>}, issue |-> "non_iterable"],
       [needs |-> {<<"u","n","d","e","f","i","n","e","d"," ","v","a","r","i","a","b","l","e">>}, issue |-> "undefined_variable"],
       [needs |-> {<<"m","i","s","s","p","e","l","l","i","n","g">>}, issue |-> "misspelled_variable"],
       [needs |-> {<<"s","c","o","p","e">>}, issue |-> "wrong_scope"],
       [needs |-> {<<"o","u","t"," ","o","f"," ","r","a","n","g","e">>}, issue |-> "out_of_bounds"],
       [needs |-> {<<"e","m","p","t","y"," ","l","i","s","t">>}, issue |-> "empty_list"],
       [needs |-> {<<"l","o","o","p">>}, issue |-> "wrong_loop_condition"],
       [needs |-> {<<"k","e","y">>, <<"e","x","i","s","t">>}, issue |-> "missing_key"],
       [needs |-> {<<"k","e","y">>, <<"t","y","p","e">>}, issue |-> "wrong_key_type"],
       [needs |-> {<<"d","i","v","i","d","i","n","g"," ","b","y"," ","z","e","r","o">>}, issue |-> "explicit_zero_division"],
       [needs |-> {<<"v","a","r","i","a","b","l","e">>, <<"z","e","r","o">>}, issue |-> "variable_zero_division"],
       [needs |-> {<<"a","t","t","r","i","b","u","t","e">>, <<"e","x","i","s","t">>}, issue |-> "undefined_attribute"],
       [needs |-> {<<"a","t","t","r","i","b","u","t","e">>, <<"n","o","n","e">>}, issue |-> "none_attribute"] >>

\* _determine_issue_type: the first rule, from position k on, all of whose
\* substrings occur in the lower-cased root cause; 'default' when none does.
RECURSIVE IssueTypeFrom(_, _)
IssueTypeFrom(root_cause, k) ==
    IF k > Len(IssueRules) THEN "default"
    ELSE IF \A needed \in IssueRules[k].needs : Contains(Lower(root_cause), needed)
    THEN IssueRules[k].issue
    ELSE IssueTypeFrom(root_cause, k + 1)

_determine_issue_type(root_cause) == IssueTypeFrom(root_cause, 1)

\* The elements of the patterns _extract_variables matches against a match:
\* a group (\w+) or (\d+), a run \s*, or one character of a set.
WordGroup == [kind |-> "word", chars |-> {}]

DigitGroup == [kind |-> "digits", chars |-> {}]

OptionalWS == [kind |-> "ws", chars |-> {}]

Lit(chars) == [kind |-> "lit", chars |-> chars]

NoMatch == [ok |-> FALSE, groups |-> <<>>]

RECURSIVE MatchFrom(_, _, _)
\* re.match of the pattern `pat` at position i of s: whether it matches, and
\* its groups. Every run is followed by a character outside its class, so the
\* greedy match is the only one.
MatchFrom(s, i, pat) ==
    IF pat = <<>> THEN [ok |-> TRUE, groups |-> <<>>]
    ELSE LET e == Head(pat)
             j == IF e.kind = "word" THEN WordRunEnd(s, i) ELSE DigitRunEnd(s, i)
             rest == MatchFrom(s, j + 1, Tail(pat))
         IN IF e.kind = "ws" THEN MatchFrom(s, WSRunEnd(s, i) + 1, Tail(pat))
            ELSE IF e.kind = "lit"
            THEN IF i <= Len(s) /\ s[i] \in e.chars THEN MatchFrom(s, i + 1, Tail(pat)) ELSE NoMatch
            ELSE IF j >= i /\ rest.ok
            THEN [ok |-> TRUE, groups |-> <<SubSeq(s, i, j)>> \o rest.groups]
            ELSE NoMatch

\* r'(\w+)\s*\[\s*(\d+)\s*\]'
ListIndexPattern == <<WordGroup, OptionalWS, Lit({"["}), OptionalWS, DigitGroup, OptionalWS, Lit({"]"})>>

\* The pattern of the dictionary access with the double quote alone.
DictKeyPattern_DoubleQuoteOnly ==
    <<WordGroup, OptionalWS, Lit({"["}), OptionalWS, Lit({"\""}), WordGroup,
      Lit({"\""}), OptionalWS, Lit({"]"})>>

\* r'(\w+)\s*\[\s*["\'](\w+)["\']\s*\]'
DictKeyPattern ==
    <<WordGroup, OptionalWS, Lit({"["}), OptionalWS, Lit({"\"", "'"}), WordGroup,
      Lit({"\"", "'"}), OptionalWS, Lit({"]"})>>

\* r'\s*(\w+)\s*\/\s*(\w+)'
DivisionPattern == <<OptionalWS, WordGroup, OptionalWS, Lit({"/"}), OptionalWS, WordGroup>>

\* r'(\w+)\s*\.\s*(\w+)'
AttributePattern == <<WordGroup, OptionalWS, Lit({"."}), OptionalWS, WordGroup>>

\* `name in matches and matches[name]`
HasMatches(matches, name) == name \in DOMAIN matches /\ Len(matches[name]) > 0

\* The variables two groups of a pattern give, none when it does not match.
GroupVariables(pat, match, first, second) ==
    LET m == MatchFrom(match, 1, pat)
    IN IF m.ok THEN << <<first, m.groups[1]>>, <<second, m.groups[2]>> >> ELSE <<>>

\* _extract_variables: the variables as (name, value) pairs, in the order
\* the dictionary gets them.
_extract_variables(matches, error_type) ==
    IF error_type = "syntax_error" /\ HasMatches(matches, "missing_parenthesis")
    THEN LET code_snippet == matches["missing_parenthesis"][1]
         IN << <<<<"c","o","d","e","_","s","n","i","p","p","e","t">>, code_snippet>> >> \o
            (IF EndsWith(code_snippet, <<"(">>)
             THEN << <<<<"f","i","x","e","d","_","c","o","d","e">>, code_snippet \o <<")">> >> >>
             ELSE IF StartsWith(code_snippet, <<")">>)
             THEN << <<<<"f","i","x","e","d","_","c","o","d","e">>, <<"(">> \o code_snippet>> >>
             ELSE <<>>)
    ELSE IF error_type = "name_error" /\ HasMatches(matches, "undefined_variable")
    THEN << <<<<"v","a","r","i","a","b","l","e","_","n","a","m","e">>,
              matches["undefined_variable"][Len(matches["undefined_variable"])]>> >>
    ELSE IF error_type = "index_error" /\ HasMatches(matches, "out_of_bounds")
    THEN GroupVariables(ListIndexPattern, matches["out_of_bounds"][1], <<"l","i","s","t","_","n","a","m","e">>, <<"i","n","d","e","x">>)
    ELSE IF error_type = "key_error" /\ HasMatches(matches, "missing_key")
    THEN GroupVariables(DictKeyPattern, matches["missing_key"][1], <<"d","i","c","t","_","n","a","m","e">>, <<"k","e","y">>)
    ELSE IF error_type = "division_by_zero" /\ HasMatches(matches, "variable_zero_division")
    THEN GroupVariables(DivisionPattern, matches["variable_zero_division"][1],
                        <<"d","i","v","i","d","e","n","d">>, <<"d","i","v","i","s","o","r">>)
    ELSE IF error_type = "attribute_error" /\ HasMatches(matches, "undefined_attribute")
    THEN GroupVariables(AttributePattern, matches["undefined_attribute"][1],
                        <<"o","b","j","e","c","t">>, <<"a","t","t","r","i","b","u","t","e">>)
    ELSE <<>>

RECURSIVE Substitute(_, _)
\* The placeholders '{name}' of the code replaced by the values, one
\* variable after the other.
Substitute(code, variables) ==
    IF variables = <<>> THEN code
    ELSE Substitute(ReplaceAll(code, <<"{">> \o variables[1][1] \o <<"}">>, variables[1][2]),
                    Tail(variables))

\* _customize_solutions: every template becomes a solution, its code with the
\* placeholders replaced.
_customize_solutions(solutions, matches, error_type) ==
    [k \in 1..Len(solutions) |->
        [description |-> solutions[k].description,
         code |-> Substitute(solutions[k].code_template, _extract_variables(matches, error_type))]]

\* generate: line 221 takes the kind's dictionary of templates, or the default
\* list for a kind without one; line 227 asks it for the issue type's
\* templates with .get, which a list does not have: AttributeError.
generate(error_type, root_cause, matches) ==
    IF error_type \notin DOMAIN solution_templates
    THEN [raised |-> TRUE, solutions |-> <<>>]
    ELSE LET error_solutions == solution_templates[error_type]
             issue_type == _determine_issue_type(root_cause)
             solutions ==
                 IF issue_type \in DOMAIN error_solutions THEN error_solutions[issue_type]
                 ELSE IF "default" \in DOMAIN error_solutions THEN error_solutions["default"]
                 ELSE <<>>
         IN [raised |-> FALSE,
             solutions |-> _customize_solutions(solutions, matches, error_type)]

\* The kinds given to generate: the ones with templates, and kinds the
\* classifiers produce that have none.
GeneratorKinds ==
    DOMAIN solution_templates \cup
        {"value_error", "import_error", "indentation_error", "reference_error",
         "unknown_error", "unknown", "io_error"}

\* The root causes given to generate: the sentences of the context analyzer,
\* the empty default, and its sentence for a kind without templates.
RootCauses ==
    { <<>>,
      <<"M","i","s","s","i","n","g"," ","o","r"," ","u","n","m","a","t","c","h","e","d"," ","p","a","r","e","n","t","h","e","s","i","s"," ","i","n"," ","t","h","e"," ","c","o","d","e">>,
      <<"M","i","s","s","i","n","g"," ","o","r"," ","u","n","m","a","t","c","h","e","d"," ","b","r","a","c","k","e","t"," ","i","n"," ","t","h","e"," ","c","o","d","e">>,
      <<"M","i","s","s","i","n","g"," ","o","r"," ","u","n","m","a","t","c","h","e","d"," ","b","r","a","c","e"," ","i","n"," ","t","h","e"," ","c","o","d","e">>,
      <<"M","i","s","s","i","n","g"," ","c","o","l","o","n"," ","a","f","t","e","r"," ","a"," ","c","o","n","t","r","o","l"," ","s","t","a","t","e","m","e","n","t">>,
      <<"I","n","v","a","l","i","d"," ","i","n","d","e","n","t","a","t","i","o","n"," ","i","n"," ","t","h","e"," ","c","o","d","e">>,
      <<"A","t","t","e","m","p","t","i","n","g"," ","t","o"," ","u","s","e"," ","a"," ","s","t","r","i","n","g"," ","a","s"," ","a"," ","n","u","m","b","e","r"," ","w","i","t","h","o","u","t"," ","c","o","n","v","e","r","s","i","o","n">>,
      <<"P","e","r","f","o","r","m","i","n","g"," ","a","n"," ","o","p","e","r","a","t","i","o","n"," ","o","n"," ","N","o","n","e">>,
      <<"P","a","s","s","i","n","g"," ","i","n","c","o","r","r","e","c","t"," ","a","r","g","u","m","e","n","t","s"," ","t","o"," ","a"," ","f","u","n","c","t","i","o","n">>,
      <<"T","r","y","i","n","g"," ","t","o"," ","i","t","e","r","a","t","e"," ","o","v","e","r"," ","a"," ","n","o","n","-","i","t","e","r","a","b","l","e"," ","o","b","j","e","c","t">>,
      <<"U","s","i","n","g"," ","a"," ","v","a","r","i","a","b","l","e"," ","t","h","a","t"," ","i","s"," ","n","o","t"," ","d","e","f","i","n","e","d">>,
      <<"P","o","s","s","i","b","l","e"," ","m","i","s","s","p","e","l","l","i","n","g"," ","o","f"," ","a"," ","v","a","r","i","a","b","l","e"," ","n","a","m","e">>,
      <<"U","s","i","n","g"," ","a"," ","v","a","r","i","a","b","l","e"," ","o","u","t","s","i","d","e"," ","i","t","s"," ","s","c","o","p","e">>,
      <<"A","c","c","e","s","s","i","n","g"," ","a","n"," ","i","n","d","e","x"," ","t","h","a","t"," ","i","s"," ","o","u","t"," ","o","f"," ","r","a","n","g","e">>,
      <<"T","r","y","i","n","g"," ","t","o"," ","a","c","c","e","s","s"," ","a","n"," ","e","l","e","m","e","n","t"," ","f","r","o","m"," ","a","n"," ","e","m","p","t","y"," ","l","i","s","t">>,
      <<"I","n","c","o","r","r","e","c","t"," ","l","o","o","p"," ","t","e","r","m","i","n","a","t","i","o","n"," ","c","o","n","d","i","t","i","o","n">>,
      <<"T","r","y","i","n","g"," ","t","o"," ","a","c","c","e","s","s"," ","a"," ","d","i","c","t","i","o","n","a","r","y"," ","k","e","y"," ","t","h","a","t"," ","d","o","e","s","n","'","t"," ","e","x","i","s","t">>,
      <<"U","s","i","n","g"," ","a"," ","k","e","y"," ","o","f"," ","t","h","e"," ","w","r","o","n","g"," ","t","y","p","e">>,
      <<"D","i","v","i","d","i","n","g"," ","b","y"," ","z","e","r","o"," ","e","x","p","l","i","c","i","t","l","y">>,
      <<"D","i","v","i","d","i","n","g"," ","b","y"," ","a"," ","v","a","r","i","a","b","l","e"," ","t","h","a","t"," ","h","a","s"," ","a"," ","v","a","l","u","e"," ","o","f"," ","z","e","r","o">>,
      <<"A","c","c","e","s","s","i","n","g"," ","a","n"," ","a","t","t","r","i","b","u","t","e"," ","t","h","a","t"," ","d","o","e","s","n","'","t"," ","e","x","i","s","t">>,
      <<"T","r","y","i","n","g"," ","t","o"," ","a","c","c","e","s","s"," ","a","n"," ","a","t","t","r","i","b","u","t","e"," ","o","n"," ","N","o","n","e">>,
      <<"M","i","s","s","i","n","g"," ","o","r"," ","u","n","m","a","t","c","h","e","d"," ","p","a","r","e","n","t","h","e","s","i","s",","," ","b","r","a","c","k","e","t",","," ","o","r"," ","b","r","a","c","e">>,
      <<"O","p","e","r","a","t","i","o","n"," ","b","e","t","w","e","e","n"," ","i","n","c","o","m","p","a","t","i","b","l","e"," ","t","y","p","e","s">>,
      <<"A","n"," ","e","r","r","o","r"," ","o","f"," ","t","y","p","e"," ","'","u","n","k","n","o","w","n","_","e","r","r","o","r","'"," ","o","c","c","u","r","r","e","d"," ","i","n"," ","t","h","e"," ","c","o","d","e">>,
      <<"M","i","s","s","i","n","g"," ","P","a","r","e","n","t","h","e","s","i","s"," ","n","e","a","r"," ","t","h","e"," ","c","a","l","l">> }

\* The matches given to generate: for some pattern names, the list of matches.
MatchInputs ==
    { <<>>,
      [missing_parenthesis |-> <<<<"p","r","i","n","t","(">>>>, missing_colon |-> <<>>],
      [missing_parenthesis |-> <<<<")","x">>>>],
      [missing_parenthesis |-> <<<<"(","a",","," ","b">>>>],
      [undefined_variable |-> <<<<"f","o","o">>, <<"b","a","r">>>>, misspelled_variable |-> <<<<"f","o","o">>>>],
      [out_of_bounds |-> <<<<"x","s","[","5","]">>>>],
      [out_of_bounds |-> <<<<"x","s"," ","["," ","1","2"," ","]"," ">>>>],
      [missing_key |-> <<<<"d","[","'","a","'","]">>>>, wrong_key_type |-> <<>>],
      [explicit_zero_division |-> <<>>, variable_zero_division |-> <<<<" ","/"," ","y">>>>],
      [variable_zero_division |-> <<<<"x"," ","/"," ","y">>>>],
      [undefined_attribute |-> <<<<"o","b","j"," ","."," ","a","t","t","r">>>>, none_attribute |-> <<>>] }

NoSolutions == [raised |-> FALSE, solutions |-> <<>>]

VARIABLES
    sg_error_type,    \* generate: the argument error_type
    sg_root_cause,    \* generate: context_analysis['root_cause']
    sg_matches,       \* generate: context_analysis['matches']
    sg_called,        \* generate has ended
    sg_result         \* how generate ended: raised, or the list returned

sgVars == <<sg_error_type, sg_root_cause, sg_matches, sg_called, sg_result>>

\* No call of generate is under way.
SGIdle ==
    /\ sg_error_type = "unknown_error"
    /\ sg_root_cause = <<>>
    /\ sg_matches = <<>>
    /\ sg_called = FALSE
    /\ sg_result = NoSolutions

\* A call of generate with its arguments.
SGInit ==
    /\ sg_error_type \in GeneratorKinds
    /\ sg_root_cause \in RootCauses
    /\ sg_matches \in MatchInputs
    /\ sg_called = FALSE
    /\ sg_result = NoSolutions

\* generate(preprocessed_data, error_type, context_analysis) ends.
Generate ==
    /\ ~sg_called
    /\ sg_called' = TRUE
    /\ sg_result' = generate(sg_error_type, sg_root_cause, sg_matches)
    /\ UNCHANGED <<sg_error_type, sg_root_cause, sg_matches>>

\* ------------------------------------------------------------------------
\* The indentation fixer applied to a code and then to its own output
\* ------------------------------------------------------------------------

MaxIndent == 8

MaxIndentLines == 2

\* Leading whitespace of the lines tried: runs of spaces, and runs with tabs.
IndentPrefixes ==
    {Spaces(n) : n \in 0..MaxIndent}
        \cup {<<"\t">>, <<"\t"," ">>, <<" ","\t"," "," ">>, <<"\t","\t","\t","\t"," ">>}

\* What follows the leading whitespace: nothing (a blank line) or a statement.
LineBodies == {<<>>, <<"x">>, <<"i","f"," ","x",":"," ">>}

IndentLines == {p \o b : p \in IndentPrefixes, b \in LineBodies}

\* The codes of n lines.
RECURSIVE CodesOfLines(_)
CodesOfLines(n) ==
    IF n = 1 THEN IndentLines
    ELSE {c \o <<"\n">> \o l : c \in CodesOfLines(n - 1), l \in IndentLines}

IndentCodes == UNION {CodesOfLines(n) : n \in 1..MaxIndentLines}

VARIABLES
    fi_code,       \* the code the fixer is first called with
    fi_calls,      \* calls made so far
    fi_fixed,      \* _fix_indentation_error(code)
    fi_refixed     \* _fix_indentation_error of that result

fiVars == <<fi_code, fi_calls, fi_fixed, fi_refixed>>

FIIdle ==
    /\ fi_code = <<>>
    /\ fi_calls = 0
    /\ fi_fixed = <<>>
    /\ fi_refixed = <<>>

FIInit ==
    /\ fi_code \in IndentCodes
    /\ fi_calls = 0
    /\ fi_fixed = <<>>
    /\ fi_refixed = <<>>

\* The first call, on the code.
FixIndentation ==
    /\ fi_calls = 0
    /\ fi_calls' = 1
    /\ fi_fixed' = _fix_indentation_error(fi_code)
    /\ UNCHANGED <<fi_code, fi_refixed>>

\* The second call, on what the first call returned.
FixIndentationAgain ==
    /\ fi_calls = 1
    /\ fi_calls' = 2
    /\ fi_refixed' = _fix_indentation_error(fi_fixed)
    /\ UNCHANGED <<fi_code, fi_fixed>>

\* ------------------------------------------------------------------------
\* CodeBERTModel.classify: kind, confidence and rule-based fix of a message
\* ------------------------------------------------------------------------

K_unknown_error == <<"u","n","k","n","o","w","n","_","e","r","r","o","r">>

\* self.error_patterns, in dictionary order, each pattern lower-cased as line
\* 203 does and cut at its '.*' into the literal texts that have to follow
\* one another on one line.
error_patterns == <<
    [kind |-> <<"s","y","n","t","a","x","_","e","r","r","o","r">>,
     patterns |-> <<<<<<"s","y","n","t","a","x","e","r","r","o","r">>>>,
                   <<<<"i","n","v","a","l","i","d"," ","s","y","n","t","a","x">>>>,
                   <<<<"u","n","e","x","p","e","c","t","e","d"," ","t","o","k","e","n">>>>,
                   <<<<"e","o","f"," ","w","h","i","l","e"," ","s","c","a","n","n","i","n","g">>>>,
                   <<<<"e","x","p","e","c","t","e","d">>, <<":">>>>,
                   <<<<"m","i","s","s","i","n","g">>, <<")">>>>,
                   <<<<"u","n","m","a","t","c","h","e","d">>, <<"(">>>>,
                   <<<<"i","n","v","a","l","i","d"," ","c","h","a","r","a","c","t","e","r">>>>,
                   <<<<"u","n","e","x","p","e","c","t","e","d"," ","e","o","f">>>>,
                   <<<<"u","n","e","x","p","e","c","t","e","d"," ","i","n","d","e","n","t">>>>,
                   <<<<"i","n","v","a","l","i","d"," ","d","e","c","i","m","a","l"," ","l","i","t","e","r","a","l">>>>>>],
    [kind |-> <<"t","y","p","e","_","e","r","r","o","r">>,
     patterns |-> <<<<<<"t","y","p","e","e","r","r","o","r">>>>,
                   <<<<"n","o","t"," ","c","a","l","l","a","b","l","e">>>>,
                   <<<<"u","n","s","u","p","p","o","r","t","e","d"," ","o","p","e","r","a","n","d">>>>,
                   <<<<"m","u","s","t"," ","b","e">>, <<"n","o","t">>>>,
                   <<<<"c","a","n","'","t"," ","c","o","n","v","e","r","t">>>>,
                   <<<<"a","r","g","u","m","e","n","t"," ","m","u","s","t"," ","b","e">>>>,
                   <<<<"t","a","k","e","s">>, <<"p","o","s","i","t","i","o","n","a","l"," ","a","r","g","u","m","e","n","t">>>>,
                   <<<<"m","i","s","s","i","n","g">>, <<"r","e","q","u","i","r","e","d">>, <<"a","r","g","u","m","e","n","t">>>>,
                   <<<<"u","n","e","x","p","e","c","t","e","d"," ","k","e","y","w","o","r","d"," ","a","r","g","u","m","e","n","t">>>>>>],
    [kind |-> <<"n","a","m","e","_","e","r","r","o","r">>,
     patterns |-> <<<<<<"n","a","m","e","e","r","r","o","r">>>>,
                   <<<<"n","o","t"," ","d","e","f","i","n","e","d">>>>,
                   <<<<"r","e","f","e","r","e","n","c","e","d"," ","b","e","f","o","r","e"," ","a","s","s","i","g","n","m","e","n","t">>>>,
                   <<<<"g","l","o","b","a","l"," ","n","a","m","e">>, <<"n","o","t"," ","d","e","f","i","n","e","d">>>>,
                   <<<<"l","o","c","a","l"," ","v","a","r","i","a","b","l","e">>, <<"r","e","f","e","r","e","n","c","e","d">>>>>>],
    [kind |-> <<"i","n","d","e","x","_","e","r","r","o","r">>,
     patterns |-> <<<<<<"i","n","d","e","x","e","r","r","o","r">>>>,
                   <<<<"o","u","t"," ","o","f"," ","r","a","n","g","e">>>>,
                   <<<<"l","i","s","t"," ","i","n","d","e","x"," ","o","u","t"," ","o","f"," ","r","a","n","g","e">>>>,
                   <<<<"s","t","r","i","n","g"," ","i","n","d","e","x"," ","o","u","t"," ","o","f"," ","r","a","n","g","e">>>>,
                   <<<<"t","u","p","l","e"," ","i","n","d","e","x"," ","o","u","t"," ","o","f"," ","r","a","n","g","e">>>>>>],
    [kind |-> <<"k","e","y","_","e","r","r","o","r">>,
     patterns |-> <<<<<<"k","e","y","e","r","r","o","r">>>>,
                   <<<<"k","e","y">>, <<"n","o","t"," ","f","o","u","n","d">>>>,
                   <<<<"d","i","c","t","i","o","n","a","r","y">>, <<"k","e","y">>>>>>],
    [kind |-> <<"v","a","l","u","e","_","e","r","r","o","r">>,
     patterns |-> <<<<<<"v","a","l","u","e","e","r","r","o","r">>>>,
                   <<<<"i","n","v","a","l","i","d"," ","l","i","t","e","r","a","l">>>>,
                   <<<<"c","o","u","l","d"," ","n","o","t"," ","c","o","n","v","e","r","t">>>>,
                   <<<<"n","o","t"," ","e","n","o","u","g","h"," ","v","a","l","u","e","s">>>>,
                   <<<<"t","o","o"," ","m","a","n","y"," ","v","a","l","u","e","s">>>>,
                   <<<<"i","n","v","a","l","i","d"," ","v","a","l","u","e">>>>>>],
    [kind |-> <<"a","t","t","r","i","b","u","t","e","_","e","r","r","o","r">>,
     patterns |-> <<<<<<"a","t","t","r","i","b","u","t","e","e","r","r","o","r">>>>,
                   <<<<"h","a","s"," ","n","o"," ","a","t","t","r","i","b","u","t","e">>>>,
                   <<<<"o","b","j","e","c","t"," ","h","a","s"," ","n","o"," ","a","t","t","r","i","b","u","t","e">>>>,
                   <<<<"m","o","d","u","l","e">>, <<"h","a","s"," ","n","o"," ","a","t","t","r","i","b","u","t","e">>>>,
                   <<<<"t","y","p","e"," ","o","b","j","e","c","t">>, <<"h","a","s"," ","n","o"," ","a","t","t","r","i","b","u","t","e">>>>>>],
    [kind |-> <<"i","m","p","o","r","t","_","e","r","r","o","r">>,
     patterns |-> <<<<<<"i","m","p","o","r","t","e","r","r","o","r">>>>,
                   <<<<"m","o","d","u","l","e","n","o","t","f","o","u","n","d","e","r","r","o","r">>>>,
                   <<<<"n","o"," ","m","o","d","u","l","e"," ","n","a","m","e","d">>>>,
                   <<<<"c","a","n","n","o","t"," ","i","m","p","o","r","t">>>>,
                   <<<<"a","t","t","e","m","p","t","e","d"," ","r","e","l","a","t","i","v","e"," ","i","m","p","o","r","t">>>>>>],
    [kind |-> <<"d","i","v","i","s","i","o","n","_","b","y","_","z","e","r","o">>,
     patterns |-> <<<<<<"z","e","r","o","d","i","v","i","s","i","o","n","e","r","r","o","r">>>>,
                   <<<<"d","i","v","i","s","i","o","n"," ","b","y"," ","z","e","r","o">>>>,
                   <<<<"f","l","o","a","t"," ","d","i","v","i","s","i","o","n"," ","b","y"," ","z","e","r","o">>>>,
                   <<<<"i","n","t","e","g","e","r"," ","d","i","v","i","s","i","o","n">>, <<"b","y"," ","z","e","r","o">>>>>>],
    [kind |-> <<"i","n","d","e","n","t","a","t","i","o","n","_","e","r","r","o","r">>,
     patterns |-> <<<<<<"i","n","d","e","n","t","a","t","i","o","n","e","r","r","o","r">>>>,
                   <<<<"e","x","p","e","c","t","e","d"," ","a","n"," ","i","n","d","e","n","t","e","d"," ","b","l","o","c","k">>>>,
                   <<<<"u","n","i","n","d","e","n","t"," ","d","o","e","s"," ","n","o","t"," ","m","a","t","c","h">>>>,
                   <<<<"u","n","e","x","p","e","c","t","e","d"," ","i","n","d","e","n","t">>>>>>] >>

\* The literal texts segs[k], segs[k+1], ... occur in this order from
\* position i of s on, with no newline in the gaps ('.' does not match it).
RECURSIVE GapMatch(_, _, _, _)
GapMatch(s, segs, k, i) ==
    IF k > Len(segs) THEN TRUE
    ELSE \E j \in i..(Len(s) + 1) :
            /\ OccursAt(s, segs[k], j)
            /\ \A m \in i..(j - 1) : s[m] # "\n"
            /\ GapMatch(s, segs, k + 1, j + Len(segs[k]))

\* re.search(pattern, s)
RegexSearch(s, segs) ==
    \E j \in 1..(Len(s) + 1) :
        OccursAt(s, segs[1], j) /\ GapMatch(s, segs, 2, j + Len(segs[1]))

\* _rule_based_classify(error_message): the first kind, in table order, that
\* has a pattern found in the lower-cased message.
_rule_based_classify(error_message) ==
    IF error_message = <<>> THEN K_unknown_error
    ELSE LET low == Lower(error_message)
             hits == {r \in 1..Len(error_patterns) :
                        \E n \in 1..Len(error_patterns[r].patterns) :
                            RegexSearch(low, error_patterns[r].patterns[n])}
         IN IF hits = {} THEN K_unknown_error ELSE error_patterns[Min(hits)].kind

\* self.error_patterns.get(error_type, [])
PatternsOf(error_type) ==
    LET rows == {r \in 1..Len(error_patterns) : error_patterns[r].kind = error_type}
    IN IF rows = {} THEN <<>> ELSE error_patterns[Min(rows)].patterns

\* _calculate_confidence without the cap of 0.9.
_calculate_confidence_Uncapped(error_message, error_type) ==
    IF error_type = K_unknown_error THEN 10
    ELSE IF error_message = <<>> THEN 30
    ELSE LET low == Lower(error_message)
             patterns == PatternsOf(error_type)
             matches == Cardinality({n \in 1..Len(patterns) : RegexSearch(low, patterns[n])})
         IN 50 + matches * 10

\* _calculate_confidence with the empty message tested before the unknown kind.
_calculate_confidence_EmptyFirst(error_message, error_type) ==
    IF error_message = <<>> THEN 30
    ELSE IF error_type = K_unknown_error THEN 10
    ELSE LET low == Lower(error_message)
             patterns == PatternsOf(error_type)
             matches == Cardinality({n \in 1..Len(patterns) : RegexSearch(low, patterns[n])})
         IN Min({90, 50 + matches * 10})

\* _calculate_confidence(error_message, error_type), in hundredths.
_calculate_confidence(error_message, error_type) ==
    IF error_type = K_unknown_error THEN 10
    ELSE IF error_message = <<>> THEN 30
    ELSE LET low == Lower(error_message)
             patterns == PatternsOf(error_type)
             matches == Cardinality({n \in 1..Len(patterns) : RegexSearch(low, patterns[n])})
         IN Min({90, 50 + matches * 10})

\* CodeBERTModel.classify(code, error_message): the tuple it returns.
CodeBERTModel_classify(code, error_message) ==
    LET error_type == _rule_based_classify(error_message)
    IN [error_type |-> error_type,
        confidence |-> _calculate_confidence(error_message, error_type),
        suggested_fix |-> _get_rule_based_fix(code, error_type, error_message)]

\* The messages and the codes the two classifiers are tried on.
MLMessages == {
    <<>>,
    <<"S","y","n","t","a","x","E","r","r","o","r",":"," ","e","x","p","e","c","t","e","d"," ","'",":","'">>,
    <<"N","a","m","e","E","r","r","o","r",":"," ","n","a","m","e"," ","'","f","o","o","'"," ","i","s"," ","n","o","t"," ","d","e","f","i","n","e","d">>,
    <<"I","n","d","e","n","t","a","t","i","o","n","E","r","r","o","r",":"," ","e","x","p","e","c","t","e","d"," ","a","n"," ","i","n","d","e","n","t","e","d"," ","b","l","o","c","k">>,
    <<"u","n","e","x","p","e","c","t","e","d"," ","i","n","d","e","n","t">>,
    <<"K","e","y","E","r","r","o","r",":"," ","'","a","'">>,
    <<"f","(",")"," ","m","i","s","s","i","n","g"," ","1"," ","r","e","q","u","i","r","e","d"," ","p","o","s","i","t","i","o","n","a","l"," ","a","r","g","u","m","e","n","t",":"," ","'","x","'">>,
    <<"s","o","m","e","t","h","i","n","g"," ","w","e","n","t"," ","w","r","o","n","g">>,
    <<"T","y","p","e","E","r","r","o","r",":"," ","m","u","s","t"," ","b","e"," ","s","t","r",","," ","n","o","t"," ","i","n","t">>,
    <<"e","x","p","e","c","t","e","d","\n","v","a","l","u","e",":"," ","3">>,
    <<"n","o","t"," ","d","e","f","i","n","e","d">>,
    <<"T","r","a","c","e","b","a","c","k">> }

MLCodes == {Requests[r].code : r \in 1..Len(Requests)} \cup {
    <<>>,
    <<"x"," ","="," ","1">>,
    <<"p","r","i","n","t"," ","'","h","i","'">>,
    <<"i","f"," ","x","\n"," "," ","y"," ","="," ","1">> }

NoClassification == [error_type |-> <<>>, confidence |-> 0, suggested_fix |-> NoneVal]

VARIABLES
    mc_code,            \* the code both classifiers are given
    mc_error_message,   \* the error message
    mc_code_context,    \* preprocessed_data['code_context'] of ErrorClassifier.classify
    mc_called,          \* both have returned
    mc_result,          \* what CodeBERTModel.classify returned
    mc_error_type       \* what ErrorClassifier.classify returned

mcVars == <<mc_code, mc_error_message, mc_code_context, mc_called, mc_result, mc_error_type>>

MCIdle ==
    /\ mc_code = <<>>
    /\ mc_error_message = <<>>
    /\ mc_code_context = <<>>
    /\ mc_called = FALSE
    /\ mc_result = NoClassification
    /\ mc_error_type = "none"

MCInit ==
    /\ mc_code \in MLCodes
    /\ mc_error_message \in MLMessages
    /\ mc_code_context \in ClassifierContexts
    /\ mc_called = FALSE
    /\ mc_result = NoClassification
    /\ mc_error_type = "none"

\* CodeBERTModel.classify and ErrorClassifier.classify on the same message.
ClassifyBoth ==
    /\ ~mc_called
    /\ mc_called' = TRUE
    /\ mc_result' = CodeBERTModel_classify(mc_code, mc_error_message)
    /\ mc_error_type' = classify(mc_error_message, mc_code_context)
    /\ UNCHANGED <<mc_code, mc_error_message, mc_code_context>>

\* ------------------------------------------------------------------------
\* ContextAnalyzer: the context patterns and re.findall over a code context
\* ------------------------------------------------------------------------

\* One node of a parsed regular expression. op is "lit" (the text sub), "set"
\* (one character of cs or of the classes cats, or none of them when neg),
\* "rep" (sub, greedy, at least min times), "alt" (the branches sub), "grp"
\* (the nodes sub), "open" and "close" (the ends of the capturing group),
\* "bol" and "eol" (^ and $ under re.MULTILINE), "wb" (\b) or "nla" (the
\* negative lookahead sub).
Item(o, cs, cats, neg, min, sub) ==
    [op |-> o, cs |-> cs, cats |-> cats, neg |-> neg, min |-> min, sub |-> sub]

\* self.context_patterns: for each kind its patterns in dictionary order.
context_patterns == [
    syntax_error |-> <<
        [name |-> "missing_parenthesis",
         items |-> <<Item("alt", {}, {}, FALSE, 0, <<<<Item("lit", {}, {}, FALSE, 0, <<"(">>), Item("rep", {}, {}, FALSE, 0, <<Item("set", {}, {"space"}, FALSE, 0, <<>>)>>), Item("rep", {}, {}, FALSE, 0, <<Item("set", {"(",")"}, {}, TRUE, 0, <<>>)>>), Item("eol", {}, {}, FALSE, 0, <<>>)>>, <<Item("bol", {}, {}, FALSE, 0, <<>>), Item("rep", {}, {}, FALSE, 0, <<Item("set", {"(",")"}, {}, TRUE, 0, <<>>)>>), Item("rep", {}, {}, FALSE, 0, <<Item("set", {}, {"space"}, FALSE, 0, <<>>)>>), Item("lit", {}, {}, FALSE, 0, <<")">>)>>>>)>>],
        [name |-> "missing_bracket",
         items |-> <<Item("alt", {}, {}, FALSE, 0, <<<<Item("lit", {}, {}, FALSE, 0, <<"[">>), Item("rep", {}, {}, FALSE, 0, <<Item("set", {}, {"space"}, FALSE, 0, <<>>)>>), Item("rep", {}, {}, FALSE, 0, <<Item("set", {"[","]"}, {}, TRUE, 0, <<>>)>>), Item("eol", {}, {}, FALSE, 0, <<>>)>>, <<Item("bol", {}, {}, FALSE, 0, <<>>), Item("rep", {}, {}, FALSE, 0, <<Item("set", {"[","]"}, {}, TRUE, 0, <<>>)>>), Item("rep", {}, {}, FALSE, 0, <<Item("set", {}, {"space"}, FALSE, 0, <<>>)>>), Item("lit", {}, {}, FALSE, 0, <<"]">>)>>>>)>>],
        [name |-> "missing_brace",
         items |-> <<Item("alt", {}, {}, FALSE, 0, <<<<Item("lit", {}, {}, FALSE, 0, <<"{">>), Item("rep", {}, {}, FALSE, 0, <<Item("set", {}, {"space"}, FALSE, 0, <<>>)>>), Item("rep", {}, {}, FALSE, 0, <<Item("set", {"{","}"}, {}, TRUE, 0, <<>>)>>), Item("eol", {}, {}, FALSE, 0, <<>>)>>, <<Item("bol", {}, {}, FALSE, 0, <<>>), Item("rep", {}, {}, FALSE, 0, <<Item("set", {"{","}"}, {}, TRUE, 0, <<>>)>>), Item("rep", {}, {}, FALSE, 0, <<Item("set", {}, {"space"}, FALSE, 0, <<>>)>>), Item("lit", {}, {}, FALSE, 0, <<"}">>)>>>>)>>],
        [name |-> "missing_colon",
         items |-> <<Item("open", {}, {}, FALSE, 0, <<>>), Item("grp", {}, {}, FALSE, 0, <<Item("alt", {}, {}, FALSE, 0, <<<<Item("lit", {}, {}, FALSE, 0, <<"i","f">>)>>, <<Item("lit", {}, {}, FALSE, 0, <<"e","l","s","e">>)>>, <<Item("lit", {}, {}, FALSE, 0, <<"e","l","i","f">>)>>, <<Item("lit", {}, {}, FALSE, 0, <<"f","o","r">>)>>, <<Item("lit", {}, {}, FALSE, 0, <<"w","h","i","l","e">>)>>, <<Item("lit", {}, {}, FALSE, 0, <<"d","e","f">>)>>, <<Item("lit", {}, {}, FALSE, 0, <<"c","l","a","s","s">>)>>>>)>>), Item("close", {}, {}, FALSE, 0, <<>>), Item("rep", {}, {}, FALSE, 1, <<Item("set", {}, {"space"}, FALSE, 0, <<>>)>>), Item("rep", {}, {}, FALSE, 0, <<Item("set", {":"}, {}, TRUE, 0, <<>>)>>), Item("eol", {}, {}, FALSE, 0, <<>>)>>],
        [name |-> "invalid_indentation",
         items |-> <<Item("bol", {}, {}, FALSE, 0, <<>>), Item("rep", {}, {}, FALSE, 0, <<Item("set", {}, {"space"}, FALSE, 0, <<>>)>>), Item("rep", {}, {}, FALSE, 1, <<Item("set", {}, {"notspace"}, FALSE, 0, <<>>)>>), Item("rep", {}, {}, FALSE, 0, <<Item("set", {"\n"}, {}, TRUE, 0, <<>>)>>), Item("lit", {}, {}, FALSE, 0, <<"\n">>), Item("bol", {}, {}, FALSE, 0, <<>>), Item("nla", {}, {}, FALSE, 0, <<Item("set", {}, {"space"}, FALSE, 0, <<>>)>>)>>] >>,
    type_error |-> <<
        [name |-> "string_as_number",
         items |-> <<Item("set", {"\"","'"}, {}, FALSE, 0, <<>>), Item("rep", {}, {}, FALSE, 1, <<Item("set", {}, {"digit"}, FALSE, 0, <<>>)>>), Item("set", {"\"","'"}, {}, FALSE, 0, <<>>), Item("rep", {}, {}, FALSE, 0, <<Item("set", {}, {"space"}, FALSE, 0, <<>>)>>), Item("set", {"+","-","*","/"}, {}, FALSE, 0, <<>>)>>],
        [name |-> "none_operation",
         items |-> <<Item("lit", {}, {}, FALSE, 0, <<"N","o","n","e">>), Item("rep", {}, {}, FALSE, 0, <<Item("set", {}, {"space"}, FALSE, 0, <<>>)>>), Item("set", {"+","-","*","/","[","]"}, {}, FALSE, 0, <<>>)>>],
        [name |-> "wrong_function_args",
         items |-> <<Item("rep", {}, {}, FALSE, 1, <<Item("set", {}, {"word"}, FALSE, 0, <<>>)>>), Item("lit", {}, {}, FALSE, 0, <<"(">>), Item("rep", {}, {}, FALSE, 0, <<Item("set", {")"}, {}, TRUE, 0, <<>>)>>), Item("lit", {}, {}, FALSE, 0, <<")">>), Item("rep", {}, {}, FALSE, 0, <<Item("set", {}, {"space"}, FALSE, 0, <<>>)>>), Item("lit", {}, {}, FALSE, 0, <<".">>)>>],
        [name |-> "non_iterable",
         items |-> <<Item("lit", {}, {}, FALSE, 0, <<"f","o","r">>), Item("rep", {}, {}, FALSE, 1, <<Item("set", {}, {"space"}, FALSE, 0, <<>>)>>), Item("rep", {}, {}, FALSE, 1, <<Item("set", {}, {"word"}, FALSE, 0, <<>>)>>), Item("rep", {}, {}, FALSE, 1, <<Item("set", {}, {"space"}, FALSE, 0, <<>>)>>), Item("lit", {}, {}, FALSE, 0, <<"i","n">>), Item("rep", {}, {}, FALSE, 1, <<Item("set", {}, {"space"}, FALSE, 0, <<>>)>>), Item("open", {}, {}, FALSE, 0, <<>>), Item("grp", {}, {}, FALSE, 0, <<Item("alt", {}, {}, FALSE, 0, <<<<Item("rep", {}, {}, FALSE, 1, <<Item("set", {}, {"digit"}, FALSE, 0, <<>>)>>)>>, <<Item("lit", {}, {}, FALSE, 0, <<"T","r","u","e">>)>>, <<Item("lit", {}, {}, FALSE, 0, <<"F","a","l","s","e">>)>>, <<Item("lit", {}, {}, FALSE, 0, <<"N","o","n","e">>)>>>>)>>), Item("close", {}, {}, FALSE, 0, <<>>)>>] >>,
    name_error |-> <<
        [name |-> "undefined_variable",
         items |-> <<Item("wb", {}, {}, FALSE, 0, <<>>), Item("open", {}, {}, FALSE, 0, <<>>), Item("grp", {}, {}, FALSE, 0, <<Item("rep", {}, {}, FALSE, 1, <<Item("set", {}, {"word"}, FALSE, 0, <<>>)>>)>>), Item("close", {}, {}, FALSE, 0, <<>>), Item("wb", {}, {}, FALSE, 0, <<>>), Item("nla", {}, {}, FALSE, 0, <<Item("rep", {}, {}, FALSE, 0, <<Item("set", {}, {"space"}, FALSE, 0, <<>>)>>), Item("set", {"=",":","(","[","{"}, {}, FALSE, 0, <<>>)>>)>>],
        [name |-> "misspelled_variable",
         items |-> <<Item("wb", {}, {}, FALSE, 0, <<>>), Item("rep", {}, {}, FALSE, 3, <<Item("set", {}, {"word"}, FALSE, 0, <<>>)>>), Item("wb", {}, {}, FALSE, 0, <<>>)>>],
        [name |-> "wrong_scope",
         items |-> <<Item("lit", {}, {}, FALSE, 0, <<"d","e","f">>), Item("rep", {}, {}, FALSE, 1, <<Item("set", {}, {"space"}, FALSE, 0, <<>>)>>), Item("rep", {}, {}, FALSE, 1, <<Item("set", {}, {"word"}, FALSE, 0, <<>>)>>), Item("lit", {}, {}, FALSE, 0, <<"(">>), Item("rep", {}, {}, FALSE, 0, <<Item("set", {")"}, {}, TRUE, 0, <<>>)>>), Item("lit", {}, {}, FALSE, 0, <<")",":">>), Item("rep", {}, {}, FALSE, 0, <<Item("set", {}, {"space"}, FALSE, 0, <<>>)>>), Item("rep", {}, {}, FALSE, 0, <<Item("set", {"\n"}, {}, TRUE, 0, <<>>)>>), Item("lit", {}, {}, FALSE, 0, <<"\n">>), Item("rep", {}, {}, FALSE, 0, <<Item("rep", {}, {}, FALSE, 1, <<Item("set", {}, {"space"}, FALSE, 0, <<>>)>>), Item("rep", {}, {}, FALSE, 0, <<Item("set", {"\n"}, {}, TRUE, 0, <<>>)>>), Item("lit", {}, {}, FALSE, 0, <<"\n">>)>>), Item("rep", {}, {}, FALSE, 1, <<Item("set", {}, {"space"}, FALSE, 0, <<>>)>>), Item("lit", {}, {}, FALSE, 0, <<"r","e","t","u","r","n">>), Item("rep", {}, {}, FALSE, 1, <<Item("set", {}, {"space"}, FALSE, 0, <<>>)>>), Item("rep", {}, {}, FALSE, 1, <<Item("set", {}, {"word"}, FALSE, 0, <<>>)>>)>>] >>,
    index_error |-> <<
        [name |-> "out_of_bounds",
         items |-> <<Item("rep", {}, {}, FALSE, 1, <<Item("set", {}, {"word"}, FALSE, 0, <<>>)>>), Item("rep", {}, {}, FALSE, 0, <<Item("set", {}, {"space"}, FALSE, 0, <<>>)>>), Item("lit", {}, {}, FALSE, 0, <<"[">>), Item("rep", {}, {}, FALSE, 0, <<Item("set", {}, {"space"}, FALSE, 0, <<>>)>>), Item("rep", {}, {}, FALSE, 1, <<Item("set", {}, {"digit"}, FALSE, 0, <<>>)>>), Item("rep", {}, {}, FALSE, 0, <<Item("set", {}, {"space"}, FALSE, 0, <<>>)>>), Item("lit", {}, {}, FALSE, 0, <<"]">>)>>],
        [name |-> "empty_list",
         items |-> <<Item("lit", {}, {}, FALSE, 0, <<"[">>), Item("rep", {}, {}, FALSE, 0, <<Item("set", {}, {"space"}, FALSE, 0, <<>>)>>), Item("lit", {}, {}, FALSE, 0, <<"]">>), Item("rep", {}, {}, FALSE, 0, <<Item("set", {}, {"space"}, FALSE, 0, <<>>)>>), Item("lit", {}, {}, FALSE, 0, <<"[">>)>>],
        [name |-> "wrong_loop_condition",
         items |-> <<Item("lit", {}, {}, FALSE, 0, <<"f","o","r">>), Item("rep", {}, {}, FALSE, 1, <<Item("set", {}, {"space"}, FALSE, 0, <<>>)>>), Item("rep", {}, {}, FALSE, 1, <<Item("set", {}, {"word"}, FALSE, 0, <<>>)>>), Item("rep", {}, {}, FALSE, 1, <<Item("set", {}, {"space"}, FALSE, 0, <<>>)>>), Item("lit", {}, {}, FALSE, 0, <<"i","n">>), Item("rep", {}, {}, FALSE, 1, <<Item("set", {}, {"space"}, FALSE, 0, <<>>)>>), Item("lit", {}, {}, FALSE, 0, <<"r","a","n","g","e","(">>), Item("rep", {}, {}, FALSE, 0, <<Item("set", {"\n"}, {}, TRUE, 0, <<>>)>>), Item("lit", {}, {}, FALSE, 0, <<")",":">>), Item("rep", {}, {}, FALSE, 0, <<Item("set", {}, {"space"}, FALSE, 0, <<>>)>>), Item("rep", {}, {}, FALSE, 0, <<Item("set", {"\n"}, {}, TRUE, 0, <<>>)>>), Item("lit", {}, {}, FALSE, 0, <<"\n">>), Item("rep", {}, {}, FALSE, 0, <<Item("rep", {}, {}, FALSE, 1, <<Item("set", {}, {"space"}, FALSE, 0, <<>>)>>), Item("rep", {}, {}, FALSE, 0, <<Item("set", {"\n"}, {}, TRUE, 0, <<>>)>>), Item("lit", {}, {}, FALSE, 0, <<"\n">>)>>), Item("rep", {}, {}, FALSE, 1, <<Item("set", {}, {"space"}, FALSE, 0, <<>>)>>), Item("rep", {}, {}, FALSE, 1, <<Item("set", {}, {"word"}, FALSE, 0, <<>>)>>), Item("lit", {}, {}, FALSE, 0, <<"[">>), Item("rep", {}, {}, FALSE, 1, <<Item("set", {}, {"word"}, FALSE, 0, <<>>)>>), Item("lit", {}, {}, FALSE, 0, <<"]">>)>>] >>,
    key_error |-> <<
        [name |-> "missing_key",
         items |-> <<Item("rep", {}, {}, FALSE, 1, <<Item("set", {}, {"word"}, FALSE, 0, <<>>)>>), Item("rep", {}, {}, FALSE, 0, <<Item("set", {}, {"space"}, FALSE, 0, <<>>)>>), Item("lit", {}, {}, FALSE, 0, <<"[">>), Item("rep", {}, {}, FALSE, 0, <<Item("set", {}, {"space"}, FALSE, 0, <<>>)>>), Item("set", {"\"","'"}, {}, FALSE, 0, <<>>), Item("rep", {}, {}, FALSE, 1, <<Item("set", {}, {"word"}, FALSE, 0, <<>>)>>), Item("set", {"\"","'"}, {}, FALSE, 0, <<>>), Item("rep", {}, {}, FALSE, 0, <<Item("set", {}, {"space"}, FALSE, 0, <<>>)>>), Item("lit", {}, {}, FALSE, 0, <<"]">>)>>],
        [name |-> "wrong_key_type",
         items |-> <<Item("rep", {}, {}, FALSE, 1, <<Item("set", {}, {"word"}, FALSE, 0, <<>>)>>), Item("rep", {}, {}, FALSE, 0, <<Item("set", {}, {"space"}, FALSE, 0, <<>>)>>), Item("lit", {}, {}, FALSE, 0, <<"[">>), Item("rep", {}, {}, FALSE, 0, <<Item("set", {}, {"space"}, FALSE, 0, <<>>)>>), Item("rep", {}, {}, FALSE, 1, <<Item("set", {}, {"word"}, FALSE, 0, <<>>)>>), Item("rep", {}, {}, FALSE, 0, <<Item("set", {}, {"space"}, FALSE, 0, <<>>)>>), Item("lit", {}, {}, FALSE, 0, <<"]">>)>>] >>,
    division_by_zero |-> <<
        [name |-> "explicit_zero_division",
         items |-> <<Item("rep", {}, {}, FALSE, 0, <<Item("set", {}, {"space"}, FALSE, 0, <<>>)>>), Item("lit", {}, {}, FALSE, 0, <<"/">>), Item("rep", {}, {}, FALSE, 0, <<Item("set", {}, {"space"}, FALSE, 0, <<>>)>>), Item("lit", {}, {}, FALSE, 0, <<"0">>)>>],
        [name |-> "variable_zero_division",
         items |-> <<Item("rep", {}, {}, FALSE, 0, <<Item("set", {}, {"space"}, FALSE, 0, <<>>)>>), Item("lit", {}, {}, FALSE, 0, <<"/">>), Item("rep", {}, {}, FALSE, 0, <<Item("set", {}, {"space"}, FALSE, 0, <<>>)>>), Item("rep", {}, {}, FALSE, 1, <<Item("set", {}, {"word"}, FALSE, 0, <<>>)>>)>>] >>,
    attribute_error |-> <<
        [name |-> "undefined_attribute",
         items |-> <<Item("rep", {}, {}, FALSE, 1, <<Item("set", {}, {"word"}, FALSE, 0, <<>>)>>), Item("rep", {}, {}, FALSE, 0, <<Item("set", {}, {"space"}, FALSE, 0, <<>>)>>), Item("lit", {}, {}, FALSE, 0, <<".">>), Item("rep", {}, {}, FALSE, 0, <<Item("set", {}, {"space"}, FALSE, 0, <<>>)>>), Item("rep", {}, {}, FALSE, 1, <<Item("set", {}, {"word"}, FALSE, 0, <<>>)>>)>>],
        [name |-> "none_attribute",
         items |-> <<Item("lit", {}, {}, FALSE, 0, <<"N","o","n","e">>), Item("rep", {}, {}, FALSE, 0, <<Item("set", {}, {"space"}, FALSE, 0, <<>>)>>), Item("lit", {}, {}, FALSE, 0, <<".">>), Item("rep", {}, {}, FALSE, 0, <<Item("set", {}, {"space"}, FALSE, 0, <<>>)>>), Item("rep", {}, {}, FALSE, 1, <<Item("set", {}, {"word"}, FALSE, 0, <<>>)>>)>>] >> ]

\* The character c matches the "set" node.
CharMatches(c, item) ==
    (\/ c \in item.cs
     \/ "space" \in item.cats /\ c \in WS
     \/ "notspace" \in item.cats /\ c \notin WS
     \/ "digit" \in item.cats /\ c \in Range(DigitChars)
     \/ "word" \in item.cats /\ IsWordChar(c)) # item.neg

\* A node that takes no character holds at position i of s.
HoldsAt(item, s, i) ==
    CASE item.op = "bol" -> i = 1 \/ s[i - 1] = "\n"
      [] item.op = "eol" -> i = Len(s) + 1 \/ s[i] = "\n"
      [] item.op = "wb" -> WordBoundary(s, i)
      [] OTHER -> TRUE

\* A "rep" node over a single character set, and the position after the
\* longest run of such characters from i on.
IsRun(item) == item.op = "rep" /\ Len(item.sub) = 1 /\ item.sub[1].op = "set"

RunEnd(item, s, i) ==
    Min({e \in i..(Len(s) + 1) : e = Len(s) + 1 \/ ~CharMatches(s[e], item.sub[1])})

\* The nodes that follow a "rep" node once it is entered again: its body,
\* then the node itself with one repetition less to make. Every repeated
\* body of the table takes at least one character.
Repeated(item) == item.sub \o <<[item EXCEPT !.min = Max({0, item.min - 1})]>>

\* The nodes `items` match s from position i on, as a backtracking matcher
\* finds out: the first node, then the rest. A run of single characters may
\* stop at any length from its minimum up to the longest.
RECURSIVE CanMatch(_, _, _)
CanMatch(items, s, i) ==
    IF Len(items) = 0 THEN TRUE
    ELSE LET item == Head(items)
             rest == Tail(items)
         IN CASE IsRun(item) ->
                    \E e \in (i + item.min)..RunEnd(item, s, i) : CanMatch(rest, s, e)
              [] item.op = "lit" ->
                    OccursAt(s, item.sub, i) /\ CanMatch(rest, s, i + Len(item.sub))
              [] item.op = "set" ->
                    i <= Len(s) /\ CharMatches(s[i], item) /\ CanMatch(rest, s, i + 1)
              [] item.op = "rep" ->
                    \/ CanMatch(Repeated(item) \o rest, s, i)
                    \/ item.min = 0 /\ CanMatch(rest, s, i)
              [] item.op = "alt" ->
                    \E b \in 1..Len(item.sub) : CanMatch(item.sub[b] \o rest, s, i)
              [] item.op = "grp" -> CanMatch(item.sub \o rest, s, i)
              [] item.op = "nla" -> ~CanMatch(item.sub, s, i) /\ CanMatch(rest, s, i)
              [] OTHER -> HoldsAt(item, s, i) /\ CanMatch(rest, s, i)

\* The match the matcher finds first when `items` match from i on: greedy
\* repetitions take one more round whenever the rest can still match, and
\* a run takes the most characters that let the rest match, and the
\* earliest branch that lets the rest match is taken. The result is
\* <<end, start of the group, end of the group>>, with 0 for no group.
RECURSIVE FirstMatch(_, _, _, _, _)
FirstMatch(items, s, i, gs, ge) ==
    IF Len(items) = 0 THEN <<i, gs, ge>>
    ELSE LET item == Head(items)
             rest == Tail(items)
         IN CASE IsRun(item) ->
                    LET e == Max({n \in (i + item.min)..RunEnd(item, s, i) : CanMatch(rest, s, n)})
                    IN FirstMatch(rest, s, e, gs, ge)
              [] item.op = "lit" -> FirstMatch(rest, s, i + Len(item.sub), gs, ge)
              [] item.op = "set" -> FirstMatch(rest, s, i + 1, gs, ge)
              [] item.op = "rep" ->
                    IF CanMatch(Repeated(item) \o rest, s, i)
                    THEN FirstMatch(Repeated(item) \o rest, s, i, gs, ge)
                    ELSE FirstMatch(rest, s, i, gs, ge)
              [] item.op = "alt" ->
                    LET b == Min({n \in 1..Len(item.sub) : CanMatch(item.sub[n] \o rest, s, i)})
                    IN FirstMatch(item.sub[b] \o rest, s, i, gs, ge)
              [] item.op = "grp" -> FirstMatch(item.sub \o rest, s, i, gs, ge)
              [] item.op = "open" -> FirstMatch(rest, s, i, i, ge)
              [] item.op = "close" -> FirstMatch(rest, s, i, gs, i)
              [] OTHER -> FirstMatch(rest, s, i, gs, ge)

\* re.findall(pattern, s, re.MULTILINE) from position i on: the leftmost
\* match, reported as the text of its capturing group when the pattern has
\* one and as the whole match otherwise; the search goes on where it ended.
RECURSIVE FindAll(_, _, _)
FindAll(pattern, s, i) ==
    IF i > Len(s) + 1 THEN <<>>
    ELSE IF ~CanMatch(pattern.items, s, i) THEN FindAll(pattern, s, i + 1)
    ELSE LET m == FirstMatch(pattern.items, s, i, 0, 0)
         IN <<IF m[2] = 0 THEN SubSeq(s, i, m[1] - 1) ELSE SubSeq(s, m[2], m[3] - 1)>>
                \o FindAll(pattern, s, IF m[1] > i THEN m[1] ELSE i + 1)

\* The error kinds as Python strings: the characters of each kind's name.
KindTexts == [
    syntax_error |-> <<"s","y","n","t","a","x","_","e","r","r","o","r">>,
    type_error |-> <<"t","y","p","e","_","e","r","r","o","r">>,
    name_error |-> <<"n","a","m","e","_","e","r","r","o","r">>,
    index_error |-> <<"i","n","d","e","x","_","e","r","r","o","r">>,
    key_error |-> <<"k","e","y","_","e","r","r","o","r">>,
    division_by_zero |-> <<"d","i","v","i","s","i","o","n","_","b","y","_","z","e","r","o">>,
    attribute_error |-> <<"a","t","t","r","i","b","u","t","e","_","e","r","r","o","r">>,
    reference_error |-> <<"r","e","f","e","r","e","n","c","e","_","e","r","r","o","r">>,
    value_error |-> <<"v","a","l","u","e","_","e","r","r","o","r">>,
    import_error |-> <<"i","m","p","o","r","t","_","e","r","r","o","r">>,
    indentation_error |-> <<"i","n","d","e","n","t","a","t","i","o","n","_","e","r","r","o","r">>,
    io_error |-> <<"i","o","_","e","r","r","o","r">>,
    memory_error |-> <<"m","e","m","o","r","y","_","e","r","r","o","r">>,
    overflow_error |-> <<"o","v","e","r","f","l","o","w","_","e","r","r","o","r">>,
    timeout_error |-> <<"t","i","m","e","o","u","t","_","e","r","r","o","r">>,
    permission_error |-> <<"p","e","r","m","i","s","s","i","o","n","_","e","r","r","o","r">>,
    connection_error |-> <<"c","o","n","n","e","c","t","i","o","n","_","e","r","r","o","r">>,
    dependency_error |-> <<"d","e","p","e","n","d","e","n","c","y","_","e","r","r","o","r">>,
    null_pointer |-> <<"n","u","l","l","_","p","o","i","n","t","e","r">>,
    logic_error |-> <<"l","o","g","i","c","_","e","r","r","o","r">>,
    runtime_error |-> <<"r","u","n","t","i","m","e","_","e","r","r","o","r">>,
    unknown_error |-> <<"u","n","k","n","o","w","n","_","e","r","r","o","r">>,
    unknown |-> <<"u","n","k","n","o","w","n">> ]

\* The kind whose name is the text.
KindNamed(text) == CHOOSE kind \in DOMAIN KindTexts : KindTexts[kind] = text

\* The sentence _determine_root_cause returns for the first pattern, in
\* dictionary order, that has matches.
PatternSentences == [
    missing_parenthesis |->
        <<"M","i","s","s","i","n","g"," ","o","r"," ","u","n","m","a","t","c","h","e","d"," ","p","a","r","e","n","t","h","e","s","i","s"," ","i","n"," ","t","h","e"," ","c","o","d","e">>,
    missing_bracket |->
        <<"M","i","s","s","i","n","g"," ","o","r"," ","u","n","m","a","t","c","h","e","d"," ","b","r","a","c","k","e","t"," ","i","n"," ","t","h","e"," ","c","o","d","e">>,
    missing_brace |->
        <<"M","i","s","s","i","n","g"," ","o","r"," ","u","n","m","a","t","c","h","e","d"," ","b","r","a","c","e"," ","i","n"," ","t","h","e"," ","c","o","d","e">>,
    missing_colon |->
        <<"M","i","s","s","i","n","g"," ","c","o","l","o","n"," ","a","f","t","e","r"," ","a"," ","c","o","n","t","r","o","l"," ","s","t","a","t","e","m","e","n","t">>,
    invalid_indentation |->
        <<"I","n","v","a","l","i","d"," ","i","n","d","e","n","t","a","t","i","o","n"," ","i","n"," ","t","h","e"," ","c","o","d","e">>,
    string_as_number |->
        <<"A","t","t","e","m","p","t","i","n","g"," ","t","o"," ","u","s","e"," ","a"," ","s","t","r","i","n","g"," ","a","s"," ","a"," ","n","u","m","b","e","r"," ","w","i","t","h","o","u","t"," ","c","o","n","v","e","r","s","i","o","n">>,
    none_operation |->
        <<"P","e","r","f","o","r","m","i","n","g"," ","a","n"," ","o","p","e","r","a","t","i","o","n"," ","o","n"," ","N","o","n","e">>,
    wrong_function_args |->
        <<"P","a","s","s","i","n","g"," ","i","n","c","o","r","r","e","c","t"," ","a","r","g","u","m","e","n","t","s"," ","t","o"," ","a"," ","f","u","n","c","t","i","o","n">>,
    non_iterable |->
        <<"T","r","y","i","n","g"," ","t","o"," ","i","t","e","r","a","t","e"," ","o","v","e","r"," ","a"," ","n","o","n","-","i","t","e","r","a","b","l","e"," ","o","b","j","e","c","t">>,
    undefined_variable |->
        <<"U","s","i","n","g"," ","a"," ","v","a","r","i","a","b","l","e"," ","t","h","a","t"," ","i","s"," ","n","o","t"," ","d","e","f","i","n","e","d">>,
    misspelled_variable |->
        <<"P","o","s","s","i","b","l","e"," ","m","i","s","s","p","e","l","l","i","n","g"," ","o","f"," ","a"," ","v","a","r","i","a","b","l","e"," ","n","a","m","e">>,
    wrong_scope |->
        <<"U","s","i","n","g"," ","a"," ","v","a","r","i","a","b","l","e"," ","o","u","t","s","i","d","e"," ","i","t","s"," ","s","c","o","p","e">>,
    out_of_bounds |->
        <<"A","c","c","e","s","s","i","n","g"," ","a","n"," ","i","n","d","e","x"," ","t","h","a","t"," ","i","s"," ","o","u","t"," ","o","f"," ","r","a","n","g","e">>,
    empty_list |->
        <<"T","r","y","i","n","g"," ","t","o"," ","a","c","c","e","s","s"," ","a","n"," ","e","l","e","m","e","n","t"," ","f","r","o","m"," ","a","n"," ","e","m","p","t","y"," ","l","i","s","t">>,
    wrong_loop_condition |->
        <<"I","n","c","o","r","r","e","c","t"," ","l","o","o","p"," ","t","e","r","m","i","n","a","t","i","o","n"," ","c","o","n","d","i","t","i","o","n">>,
    missing_key |->
        <<"T","r","y","i","n","g"," ","t","o"," ","a","c","c","e","s","s"," ","a"," ","d","i","c","t","i","o","n","a","r","y"," ","k","e","y"," ","t","h","a","t"," ","d","o","e","s","n","'","t"," ","e","x","i","s","t">>,
    wrong_key_type |->
        <<"U","s","i","n","g"," ","a"," ","k","e","y"," ","o","f"," ","t","h","e"," ","w","r","o","n","g"," ","t","y","p","e">>,
    explicit_zero_division |->
        <<"D","i","v","i","d","i","n","g"," ","b","y"," ","z","e","r","o"," ","e","x","p","l","i","c","i","t","l","y">>,
    variable_zero_division |->
        <<"D","i","v","i","d","i","n","g"," ","b","y"," ","a"," ","v","a","r","i","a","b","l","e"," ","t","h","a","t"," ","h","a","s"," ","a"," ","v","a","l","u","e"," ","o","f"," ","z","e","r","o">>,
    undefined_attribute |->
        <<"A","c","c","e","s","s","i","n","g"," ","a","n"," ","a","t","t","r","i","b","u","t","e"," ","t","h","a","t"," ","d","o","e","s","n","'","t"," ","e","x","i","s","t">>,
    none_attribute |->
        <<"T","r","y","i","n","g"," ","t","o"," ","a","c","c","e","s","s"," ","a","n"," ","a","t","t","r","i","b","u","t","e"," ","o","n"," ","N","o","n","e">> ]

\* self.root_cause_templates: the generic sentences of each kind.
root_cause_templates == [
    syntax_error |-> <<
        <<"M","i","s","s","i","n","g"," ","o","r"," ","u","n","m","a","t","c","h","e","d"," ","p","a","r","e","n","t","h","e","s","i","s",","," ","b","r","a","c","k","e","t",","," ","o","r"," ","b","r","a","c","e">>,
        <<"M","i","s","s","i","n","g"," ","c","o","l","o","n"," ","a","f","t","e","r"," ","c","o","n","t","r","o","l"," ","s","t","a","t","e","m","e","n","t">>,
        <<"I","n","v","a","l","i","d"," ","i","n","d","e","n","t","a","t","i","o","n">>,
        <<"I","n","v","a","l","i","d"," ","s","y","n","t","a","x"," ","i","n"," ","t","h","e"," ","c","o","d","e"," ","s","t","r","u","c","t","u","r","e">> >>,
    type_error |-> <<
        <<"O","p","e","r","a","t","i","o","n"," ","b","e","t","w","e","e","n"," ","i","n","c","o","m","p","a","t","i","b","l","e"," ","t","y","p","e","s">>,
        <<"A","t","t","e","m","p","t","i","n","g"," ","t","o"," ","u","s","e"," ","N","o","n","e"," ","i","n"," ","a","n"," ","o","p","e","r","a","t","i","o","n">>,
        <<"P","a","s","s","i","n","g"," ","w","r","o","n","g"," ","t","y","p","e"," ","o","f"," ","a","r","g","u","m","e","n","t"," ","t","o"," ","a"," ","f","u","n","c","t","i","o","n">>,
        <<"T","r","y","i","n","g"," ","t","o"," ","i","t","e","r","a","t","e"," ","o","v","e","r"," ","a"," ","n","o","n","-","i","t","e","r","a","b","l","e"," ","o","b","j","e","c","t">> >>,
    name_error |-> <<
        <<"U","s","i","n","g"," ","a"," ","v","a","r","i","a","b","l","e"," ","t","h","a","t"," ","i","s"," ","n","o","t"," ","d","e","f","i","n","e","d">>,
        <<"M","i","s","s","p","e","l","l","i","n","g"," ","a"," ","v","a","r","i","a","b","l","e"," ","n","a","m","e">>,
        <<"U","s","i","n","g"," ","a"," ","v","a","r","i","a","b","l","e"," ","o","u","t","s","i","d","e"," ","i","t","s"," ","s","c","o","p","e">>,
        <<"F","o","r","g","e","t","t","i","n","g"," ","t","o"," ","i","m","p","o","r","t"," ","a"," ","r","e","q","u","i","r","e","d"," ","m","o","d","u","l","e">> >>,
    index_error |-> <<
        <<"A","c","c","e","s","s","i","n","g"," ","a","n"," ","i","n","d","e","x"," ","t","h","a","t"," ","i","s"," ","o","u","t"," ","o","f"," ","r","a","n","g","e">>,
        <<"T","r","y","i","n","g"," ","t","o"," ","a","c","c","e","s","s"," ","a","n"," ","e","l","e","m","e","n","t"," ","f","r","o","m"," ","a","n"," ","e","m","p","t","y"," ","l","i","s","t">>,
        <<"O","f","f","-","b","y","-","o","n","e"," ","e","r","r","o","r"," ","i","n"," ","a"," ","l","o","o","p">>,
        <<"U","s","i","n","g"," ","a","n"," ","i","n","c","o","r","r","e","c","t"," ","l","o","o","p"," ","t","e","r","m","i","n","a","t","i","o","n"," ","c","o","n","d","i","t","i","o","n">> >>,
    key_error |-> <<
        <<"T","r","y","i","n","g"," ","t","o"," ","a","c","c","e","s","s"," ","a"," ","d","i","c","t","i","o","n","a","r","y"," ","k","e","y"," ","t","h","a","t"," ","d","o","e","s","n","'","t"," ","e","x","i","s","t">>,
        <<"M","i","s","s","p","e","l","l","i","n","g"," ","a"," ","d","i","c","t","i","o","n","a","r","y"," ","k","e","y">>,
        <<"U","s","i","n","g"," ","a"," ","k","e","y"," ","o","f"," ","t","h","e"," ","w","r","o","n","g"," ","t","y","p","e">>,
        <<"A","s","s","u","m","i","n","g"," ","a"," ","k","e","y"," ","e","x","i","s","t","s"," ","w","i","t","h","o","u","t"," ","c","h","e","c","k","i","n","g"," ","f","i","r","s","t">> >>,
    division_by_zero |-> <<
        <<"D","i","v","i","d","i","n","g"," ","b","y"," ","z","e","r","o"," ","e","x","p","l","i","c","i","t","l","y">>,
        <<"D","i","v","i","d","i","n","g"," ","b","y"," ","a"," ","v","a","r","i","a","b","l","e"," ","t","h","a","t"," ","h","a","s"," ","a"," ","v","a","l","u","e"," ","o","f"," ","z","e","r","o">>,
        <<"N","o","t"," ","c","h","e","c","k","i","n","g"," ","f","o","r"," ","z","e","r","o"," ","b","e","f","o","r","e"," ","d","i","v","i","s","i","o","n">>,
        <<"L","o","g","i","c"," ","e","r","r","o","r"," ","l","e","a","d","i","n","g"," ","t","o"," ","a"," ","z","e","r","o"," ","d","e","n","o","m","i","n","a","t","o","r">> >>,
    attribute_error |-> <<
        <<"A","c","c","e","s","s","i","n","g"," ","a","n"," ","a","t","t","r","i","b","u","t","e"," ","t","h","a","t"," ","d","o","e","s","n","'","t"," ","e","x","i","s","t">>,
        <<"T","r","y","i","n","g"," ","t","o"," ","a","c","c","e","s","s"," ","a","n"," ","a","t","t","r","i","b","u","t","e"," ","o","n"," ","N","o","n","e">>,
        <<"M","i","s","s","p","e","l","l","i","n","g"," ","a","n"," ","a","t","t","r","i","b","u","t","e"," ","n","a","m","e">>,
        <<"U","s","i","n","g"," ","a","n"," ","a","t","t","r","i","b","u","t","e"," ","b","e","f","o","r","e"," ","i","t","'","s"," ","d","e","f","i","n","e","d">> >> ]

\* self.context_patterns.get(error_type, {})
ContextPatternsOf(error_type) ==
    IF error_type \in DOMAIN context_patterns THEN context_patterns[error_type] ELSE <<>>

\* The root cause taken from the last pattern of the kind that has matches.
_determine_root_cause_LastMatch(error_type, matches) ==
    LET patterns == ContextPatternsOf(error_type)
        hits == {k \in 1..Len(patterns) : HasMatches(matches, patterns[k].name)}
    IN IF hits # {} THEN PatternSentences[patterns[Max(hits)].name]
       ELSE IF error_type \in DOMAIN root_cause_templates
       THEN root_cause_templates[error_type][1]
       ELSE <<"A","n"," ","e","r","r","o","r"," ","o","f"," ","t","y","p","e"," ","'">>
                \o KindTexts[error_type]
                \o <<"'"," ","o","c","c","u","r","r","e","d"," ","i","n"," ","t","h","e"," ","c","o","d","e">>

\* _determine_root_cause: the sentence of the first pattern of the kind, in
\* dictionary order, that has matches; else the kind's first generic
\* sentence; else the sentence that names the kind.
_determine_root_cause(error_type, matches) ==
    LET patterns == ContextPatternsOf(error_type)
        hits == {k \in 1..Len(patterns) : HasMatches(matches, patterns[k].name)}
    IN IF hits # {} THEN PatternSentences[patterns[Min(hits)].name]
       ELSE IF error_type \in DOMAIN root_cause_templates
       THEN root_cause_templates[error_type][1]
       ELSE <<"A","n"," ","e","r","r","o","r"," ","o","f"," ","t","y","p","e"," ","'">>
                \o KindTexts[error_type]
                \o <<"'"," ","o","c","c","u","r","r","e","d"," ","i","n"," ","t","h","e"," ","c","o","d","e">>

\* analyze: the matches of every pattern of the kind in the code context,
\* and the root cause they give. The explanation it also builds is a piece
\* of text nobody reads afterwards.
analyze(code_context, error_type) ==
    LET patterns == ContextPatternsOf(error_type)
        found == [k \in 1..Len(patterns) |-> FindAll(patterns[k], code_context, 1)]
        matches == [name \in {patterns[k].name : k \in 1..Len(patterns)} |->
                        found[CHOOSE k \in 1..Len(patterns) : patterns[k].name = name]]
    IN [root_cause |-> _determine_root_cause(error_type, matches), matches |-> matches]

\* ------------------------------------------------------------------------
\* APIHandler.process_request (src/utils/api_handler.py)
\* ------------------------------------------------------------------------

\* A JSON number other than zero, as the value of a request field.
NumberVal == [tag |-> "number", text |-> <<>>]

\* request_data.get(key, default)
GetOr(data, key, default) == IF key \in DOMAIN data THEN data[key] ELSE default

\* f'{confidence:.2f}' of a confidence given in hundredths.
FormatConfidence(confidence) ==
    Decimal(confidence \div 100) \o <<".">>
        \o Decimal((confidence % 100) \div 10) \o Decimal(confidence % 10)

\* `confidence if confidence > 0 else None`, None being NoConfidence.
NoConfidence == -1

\* The response of the validation failure, with its status.
CodeRequired ==
    [status |-> 400, success |-> FALSE,
     error |-> <<"C","o","d","e"," ","i","s"," ","r","e","q","u","i","r","e","d">>]

\* process_request has not returned a response.
NoResponse == [status |-> 0, success |-> FALSE, error |-> <<>>]

\* Without the handler of line 132 the exception leaves process_request.
ServerError_Propagated(message) == NoResponse

\* The response of the handler of line 132: str(e) of the exception caught.
ServerError(message) == [status |-> 500, success |-> FALSE, error |-> message]

\* str(e) of the exceptions the stages raise.
NoReplaceMessage == <<"'","i","n","t","'"," ","o","b","j","e","c","t"," ","h","a","s"," ","n","o"," ","a","t","t","r","i","b","u","t","e"," ","'","r","e","p","l","a","c","e","'">>

NoGetMessage == <<"'","l","i","s","t","'"," ","o","b","j","e","c","t"," ","h","a","s"," ","n","o"," ","a","t","t","r","i","b","u","t","e"," ","'","g","e","t","'">>

NotSerializableMessage == <<"O","b","j","e","c","t"," ","o","f"," ","t","y","p","e"," ","c","o","r","o","u","t","i","n","e"," ","i","s"," ","n","o","t"," ","J","S","O","N"," ","s","e","r","i","a","l","i","z","a","b","l","e">>

\* ml_model.classify of lines 55-58: the model of main.py returns its tuple,
\* a model whose calls fail raises.
MLClassification(model, normalized_code, error_message) ==
    IF model = "codebert"
    THEN [raised |-> FALSE, value |-> CodeBERTModel_classify(normalized_code, error_message)]
    ELSE [raised |-> TRUE, value |-> NoClassification]

\* ml_model.generate_fix of lines 97-102. CodeBERTModel.generate_fix hands
\* back the coroutine of the call it does not await when the client loads,
\* and `_get_rule_based_fix(...) or code` when it does not.
MLGenerateFix(model, loads, normalized_code, error_type, error_message) ==
    IF model # "codebert" THEN [raised |-> TRUE, value |-> NoneVal]
    ELSE [raised |-> FALSE,
          value |-> IF loads THEN CoroutineVal
                     ELSE OrElse(_get_rule_based_fix(normalized_code, KindTexts[error_type],
                                                     error_message),
                                 Str(normalized_code))]

\* jsonify(response): json.dumps has no encoding of a coroutine.
Serializable(solutions) ==
    \A k \in 1..Len(solutions) :
        "source" \in DOMAIN solutions[k] => solutions[k].code.tag = "str"

\* `if not code` with only the empty string taken for a missing code.
CodeMissing_EmptyOnly(code) == code = Str(<<>>)

\* `if not code` of line 39
CodeMissing(code) == ~Truthy(code)

\* solutions.extend(rule_based_solutions) the wrong way round.
Extended_Prepended(solutions, rule_based_solutions) == rule_based_solutions \o solutions

\* solutions.extend(rule_based_solutions) of line 115
Extended(solutions, rule_based_solutions) == solutions \o rule_based_solutions

\* Lines 117-130: the solutions of the ML model first, then the templated
\* ones; the response with them, unless generate or jsonify has raised.
ComposeResponse(model, pre, classification, error_type, context_analysis, asks_fix, ml_solution, rule_based_solutions) ==
    LET confidence == classification.value.confidence
        suggested_fix == classification.value.suggested_fix
        first ==
            IF Truthy(suggested_fix)
            THEN << [description |-> "Rule-based fix suggestion", code |-> suggested_fix,
                     confidence |-> FormatConfidence(confidence),
                     source |-> "ml_model_rule_based"] >>
            ELSE IF Truthy(ml_solution.value)
            THEN << [description |-> "AI-generated solution", code |-> ml_solution.value,
                     confidence |-> <<"h","i","g","h">>, source |-> "ml_model"] >>
            ELSE <<>>
        solutions == Extended(first, rule_based_solutions.solutions)
        invoked ==
            <<"preprocess">>
                \o (IF model # "none" THEN <<"ml_classify">> ELSE <<>>)
                \o (IF classification.value.error_type = <<>> THEN <<"classify">> ELSE <<>>)
                \o <<"analyze">>
                \o (IF asks_fix THEN <<"generate_fix">> ELSE <<>>)
                \o <<"generate">>
        raised ==
            (IF classification.raised THEN {"ml_classify"} ELSE {})
                \cup (IF ml_solution.raised THEN {"generate_fix"} ELSE {})
    IN IF rule_based_solutions.raised
       THEN [response |-> ServerError(NoGetMessage), invoked |-> invoked,
             raised |-> raised \cup {"generate"}]
       ELSE IF ~Serializable(solutions)
       THEN [response |-> ServerError(NotSerializableMessage),
             invoked |-> invoked \o <<"jsonify">>, raised |-> raised \cup {"jsonify"}]
       ELSE [response |->
                 [status |-> 200, success |-> TRUE,
                  analysis |->
                     [error_type |-> error_type,
                      confidence |-> IF confidence > 0 THEN confidence ELSE NoConfidence,
                      root_cause |-> context_analysis.root_cause,
                      line_number |-> pre.line_number,
                      code_context |-> pre.code_context],
                  solutions |-> solutions],
             invoked |-> invoked \o <<"jsonify">>, raised |-> raised]

\* Lines 82-115 once the context is analyzed: generate_fix is asked when the
\* classification gave no fix and there is a model; generate always is.
SolveStage(model, loads, error_message, pre, classification, error_type, context_analysis, asks_fix) ==
    ComposeResponse(model, pre, classification, error_type, context_analysis, asks_fix,
        IF asks_fix
        THEN MLGenerateFix(model, loads, pre.normalized_code, error_type, error_message)
        ELSE [raised |-> FALSE, value |-> NoneVal],
        generate(error_type, context_analysis.root_cause, context_analysis.matches))

\* The same with generate_fix asked whenever there is a model.
AnalyzeStage_AlwaysAsks(model, loads, error_message, pre, classification, error_type) ==
    SolveStage(model, loads, error_message, pre, classification, error_type,
               analyze(pre.code_context, error_type), model # "none")

\* Line 79 once the kind is known: the context analysis of that kind.
AnalyzeStage(model, loads, error_message, pre, classification, error_type) ==
    SolveStage(model, loads, error_message, pre, classification, error_type,
               analyze(pre.code_context, error_type),
               ~Truthy(classification.value.suggested_fix) /\ model # "none")

\* Lines 75-76 once the ML model has classified or failed to: its kind, or
\* the one of ErrorClassifier.classify when it gave none.
ClassifyStage(model, loads, error_message, pre, classification) ==
    AnalyzeStage(model, loads, error_message, pre, classification,
                 IF classification.value.error_type # <<>>
                 THEN KindNamed(classification.value.error_type)
                 ELSE classify(error_message, pre.code_context))

\* Lines 46-72 for a code that is a string: preprocess, then the
\* classification of the ML model when there is one.
PreprocessStage(model, loads, error_message, pre) ==
    ClassifyStage(model, loads, error_message, pre,
                  IF model = "none" THEN [raised |-> FALSE, value |-> NoClassification]
                  ELSE MLClassification(model, pre.normalized_code, error_message))

\* process_request(request_data), of a handler built with the model `model`
\* whose client loads or not: the response with its status, the stages
\* called in the order of their calls, and the stages that raised.
process_request(data, model, loads) ==
    LET code == GetOr(data, "code", Str(<<>>))
    IN IF CodeMissing(code)
       THEN [response |-> CodeRequired, invoked |-> <<>>, raised |-> {}]
       ELSE IF code.tag # "str"
       THEN [response |-> ServerError(NoReplaceMessage),
             invoked |-> <<"preprocess">>, raised |-> {"preprocess"}]
       ELSE PreprocessStage(model, loads, GetOr(data, "error_message", <<>>),
                            preprocess(code.text, GetOr(data, "error_message", <<>>),
                                       GetOr(data, "language", "python")))

\* The exception names the classifier knows, and two other first words.
MessageWords ==
    {DirectNames[k].patterns[1] : k \in 1..Len(DirectNames)}
        \cup { <<"E","r","r","o","r">>, <<"u","n","e","x","p","e","c","t","e","d"," ","i","n","d","e","n","t">> }

\* The words that follow another word in a message.
SecondWords ==
    { <<"T","y","p","e","E","r","r","o","r">>, <<"K","e","y","E","r","r","o","r">>,
      <<"N","a","m","e","E","r","r","o","r">>,
      <<"R","e","f","e","r","e","n","c","e","E","r","r","o","r">> }

\* Messages that name a line, and messages of other failures.
LineNamingMessages ==
    { <<"K","e","y","E","r","r","o","r",":"," ","'","a","'"," ","a","t"," ","l","i","n","e"," ","2">>,
      <<"S","y","n","t","a","x","E","r","r","o","r",":"," ","e","x","p","e","c","t","e","d"," ","'",":","'"," ","a","t"," ","l","i","n","e"," ","1">> }

\* The error messages of the requests: one word, or a word, ': ' and a
\* word in quotes, then the messages of typical failures.
HandlerMessages ==
    MessageWords
        \cup {a \o <<":"," ","'">> \o b \o <<"'">> : a \in MessageWords, b \in SecondWords}
        \cup LineNamingMessages
        \cup { <<>>,
               <<"N","a","m","e","E","r","r","o","r",":"," ","n","a","m","e"," ","'","f","o","o","'"," ","i","s"," ","n","o","t"," ","d","e","f","i","n","e","d">>,
               <<"s","o","m","e","t","h","i","n","g"," ","w","e","n","t"," ","w","r","o","n","g">> }

\* The values of the code field: None, a number, the empty string, and texts.
HandlerCodes ==
    { NoneVal, NumberVal, Str(<<>>),
      Str(<<"x"," ","="," ","1">>),
      Str(<<"d"," ","="," ","{","}","\n","p","r","i","n","t","(","d","[","'","a","'","]",")">>),
      Str(<<"d","e","f"," ","f","(","x",")","\n"," "," "," "," ","r","e","t","u","r","n"," ","x">>),
      Str(<<"p","r","i","n","t","(","f","o","o",")">>),
      Str(<<" "," "," ">>),
      Str(<<"c","f","g"," ","="," ","{","}","\n","v"," ","="," ","c","f","g","[","\"","k","\"","]"," ","+"," ","d","[","'","a","'","]">>),
      Str(<<"p","r","i","n","t","(","d","[","'","a","-","b","'","]",")">>) }

\* The request objects: every field may be absent.
HandlerRequests ==
    {[code |-> c, error_message |-> m] : c \in HandlerCodes, m \in HandlerMessages}
        \cup {[code |-> c, error_message |-> m, language |-> l] :
                c \in HandlerCodes, m \in LineNamingMessages, l \in {"python", "ruby"}}
        \cup {[error_message |-> m, language |-> "python"] : m \in HandlerMessages}
        \cup {[code |-> c] : c \in HandlerCodes}
        \cup {<<>>}

\* The handler is built without a model, with the CodeBERTModel of main.py,
\* or with a model whose calls raise.
MLModels == {"none", "codebert", "faulty"}

VARIABLES
    request_data,      \* the argument of process_request
    ml_model,          \* self.ml_model
    client_loads,      \* whether _ensure_model_loaded succeeds for this request
    handled,           \* process_request has returned
    http_response,     \* the response it returned, with its status
    invoked_stages,    \* the stages it called, in the order of the calls
    raised_stages      \* the stages that raised

phVars == <<request_data, ml_model, client_loads, handled, http_response, invoked_stages,
            raised_stages>>

\* No request is under way.
PHIdle ==
    /\ request_data = <<>>
    /\ ml_model = "none"
    /\ client_loads = FALSE
    /\ handled = FALSE
    /\ http_response = NoResponse
    /\ invoked_stages = <<>>
    /\ raised_stages = {}

\* A request arrives at a handler.
PHInit ==
    /\ request_data \in HandlerRequests
    /\ ml_model \in MLModels
    /\ client_loads \in (IF ml_model = "codebert" THEN BOOLEAN ELSE {FALSE})
    /\ handled = FALSE
    /\ http_response = NoResponse
    /\ invoked_stages = <<>>
    /\ raised_stages = {}

\* process_request(request_data) returns.
ProcessRequest ==
    /\ ~handled
    /\ handled' = TRUE
    /\ LET end == process_request(request_data, ml_model, client_loads)
       IN /\ http_response' = end.response
          /\ invoked_stages' = end.invoked
          /\ raised_stages' = end.raised
    /\ UNCHANGED <<request_data, ml_model, client_loads>>

\* ------------------------------------------------------------------------
\* APIHandler.get_example_code (src/utils/api_handler.py)

\* The table of the examples the lookup builds, by identifier.
examples ==
    [
      syntax_error |->
        [code |-> "def calculate_sum(a, b)\n    return a + b\n\nresult = calculate_sum(5, 10)\nprint(result)",
         error_message |-> "SyntaxError: expected ':' at line 1",
         language |-> "python",
         description |-> "Missing colon after function definition"],
      type_error |->
        [code |-> "def calculate_average(numbers):\n    total = sum(numbers)\n    return total / len(numbers)\n\ndata = [10, 20, 30, \"40\", 50]\nresult = calculate_average(data)\nprint(result)",
         error_message |-> "TypeError: unsupported operand type(s) for +: 'int' and 'str' at line 2",
         language |-> "python",
         description |-> "Trying to sum a list containing a string"],
      name_error |->
        [code |-> "def calculate_area(radius):\n    area = pi * radius * radius\n    return area\n\nresult = calculate_area(5)\nprint(result)",
         error_message |-> "NameError: name 'pi' is not defined at line 2",
         language |-> "python",
         description |-> "Using an undefined variable (pi)"],
      index_error |->
        [code |-> "def get_element(list_data, index):\n    return list_data[index]\n\nmy_list = [10, 20, 30]\nresult = get_element(my_list, 5)\nprint(result)",
         error_message |-> "IndexError: list index out of range at line 2",
         language |-> "python",
         description |-> "Accessing a list with an index that is out of bounds"],
      key_error |->
        [code |-> "def get_value(dict_data, key):\n    return dict_data[key]\n\nmy_dict = {\"a\": 10, \"b\": 20, \"c\": 30}\nresult = get_value(my_dict, \"d\")\nprint(result)",
         error_message |-> "KeyError: 'd' at line 2",
         language |-> "python",
         description |-> "Accessing a dictionary with a key that does not exist"],
      division_by_zero |->
        [code |-> "def divide(a, b):\n    return a / b\n\nresult = divide(10, 0)\nprint(result)",
         error_message |-> "ZeroDivisionError: division by zero at line 2",
         language |-> "python",
         description |-> "Dividing a number by zero"],
      attribute_error |->
        [code |-> "class Person:\n    def __init__(self, name):\n        self.name = name\n\nperson = Person(\"John\")\nprint(person.age)",
         error_message |-> "AttributeError: 'Person' object has no attribute 'age' at line 6",
         language |-> "python",
         description |-> "Accessing an attribute that does not exist on an object"],
      javascript_syntax |->
        [code |-> "function calculateSum(a, b) {\n  return a + b\n}\n\nconst result = calculateSum(5, 10);\nconsole.log(result);",
         error_message |-> "SyntaxError: missing semicolon at line 2",
         language |-> "javascript",
         description |-> "Missing semicolon in JavaScript"],
      javascript_reference |->
        [code |-> "function displayMessage() {\n  console.log(message);\n}\n\ndisplayMessage();",
         error_message |-> "ReferenceError: message is not defined at line 2",
         language |-> "javascript",
         description |-> "Using an undefined variable in JavaScript"] ]

\* The identifiers of the table in the order of its declaration.
ExampleOrder ==
    <<"syntax_error", "type_error", "name_error", "index_error", "key_error", "division_by_zero", "attribute_error", "javascript_syntax", "javascript_reference">>

\* The copy of an example with its identifier added under 'id'.
ExampleWithId(key) ==
    [id |-> key, code |-> examples[key].code, error_message |-> examples[key].error_message,
     language |-> examples[key].language, description |-> examples[key].description]

\* The lookup that answers every identifier with the first example.
get_example_code_AlwaysFound(example_id) ==
    [status |-> 200,
     body |-> [success |-> TRUE, example |-> examples[ExampleOrder[1]]],
     table |-> examples]

\* get_example_code: the status and the JSON body of the response, and the
\* table as the call leaves it. 'all' gives the list of the copies, an
\* identifier of the table its example, anything else the 404 answer.
get_example_code(example_id) ==
    IF example_id = "all"
    THEN [status |-> 200,
          body |-> [list |-> [i \in 1..Len(ExampleOrder) |-> ExampleWithId(ExampleOrder[i])]],
          table |-> examples]
    ELSE IF example_id \in DOMAIN examples
    THEN [status |-> 200,
          body |-> [success |-> TRUE, example |-> examples[example_id]],
          table |-> examples]
    ELSE [status |-> 404,
          body |-> [success |-> FALSE, error |-> "Example not found"],
          table |-> examples]

\* The identifiers asked for: those of the table, 'all', and others, among
\* them the names of the kinds that have no example and other spellings.
ExampleIds ==
    DOMAIN examples \cup
    {"all", "ALL", "All", "", " ", "nonexistent_example", "Syntax_Error", "syntax_error ",
     "syntaxerror", "syntax", "indentation_error", "import_error", "value_error",
     "reference_error", "unknown", "default", "id", "code", "success", "example",
     "javascript", "python", "0", "1"}

VARIABLES example_id_asked, example_response, examples_table, lookups

exVars == <<example_id_asked, example_response, examples_table, lookups>>

\* Nothing has been asked: the table is the one of the declaration.
EXIdle ==
    /\ example_id_asked = ""
    /\ example_response = [status |-> 0, body |-> [none |-> TRUE]]
    /\ examples_table = examples
    /\ lookups = 0

EXInit == EXIdle

\* GET /api/examples/<example_id>: one more lookup, of any identifier.
GetExample ==
    /\ lookups < MaxLookups
    /\ \E example_id \in ExampleIds :
          LET answer == get_example_code(example_id)
          IN /\ example_id_asked' = example_id
             /\ example_response' = [status |-> answer.status, body |-> answer.body]
             /\ examples_table' = answer.table
    /\ lookups' = lookups + 1

\* ------------------------------------------------------------------------
\* ContextAnalyzer.analyze on its own
\* ------------------------------------------------------------------------

\* The code contexts analysed: the empty one, a numbered window, and lines
\* in which none, one or several patterns of a kind have matches.
AnalyzerContexts ==
    { <<>>,
      <<" "," "," ","1",":"," ","d"," ","="," ","{","}","\n",">",">",">"," "," "," "," ","2",":"," ","d","[","'","a","'","]">>,
      <<"x"," ","="," ","m","y","_","d","i","c","t","[","\"","k","e","y","\"","]"," ","+"," ","d"," ","["," ","'","k","'"," ","]">>,
      <<"f","o","r"," ","i"," ","i","n"," ","r","a","n","g","e","(","1","0",")",":","\n"," "," "," "," ","y","[","i","]">>,
      <<"d","e","f"," ","f","(","a",")",":","\n"," "," ","r","e","t","u","r","n"," ","b">>,
      <<"f","o","r"," ","x"," ","i","n"," ","5">>,
      <<"a"," ","/"," ","0"," ","+"," ","b","/","c">>,
      <<"N","o","n","e",".","f","o","o"," ","o","b","j"," ","."," ","a","t","t","r">>,
      <<"[","]","[","0","]"," ","x","s","[","1","2","]">>,
      <<"i","f"," ","x","\n"," "," ","y">>,
      <<"'","5","'"," ","+"," ","3">>,
      <<"p","r","i","n","t","(","f","o","o">>,
      <<"d","[","k","]">>,
      <<"x"," ","/"," ","y">>,
      <<"v"," ","="," ","[","1",","," ","2","\n","i","f"," ","v">> }

VARIABLES
    ca_code_context,   \* analyze: preprocessed_data['code_context']
    ca_error_type,     \* analyze: the argument error_type
    ca_called,         \* analyze has ended
    ca_result          \* the root cause and the matches it returned

caVars == <<ca_code_context, ca_error_type, ca_called, ca_result>>

NoAnalysis == [root_cause |-> <<>>, matches |-> <<>>]

\* No call of analyze is under way.
CAIdle ==
    /\ ca_code_context = <<>>
    /\ ca_error_type = "unknown_error"
    /\ ca_called = FALSE
    /\ ca_result = NoAnalysis

\* A call of analyze with a code context and a kind.
CAInit ==
    /\ ca_code_context \in AnalyzerContexts
    /\ ca_error_type \in DOMAIN KindTexts
    /\ ca_called = FALSE
    /\ ca_result = NoAnalysis

\* analyze(preprocessed_data, error_type) ends.
Analyze ==
    /\ ~ca_called
    /\ ca_called' = TRUE
    /\ ca_result' = analyze(ca_code_context, ca_error_type)
    /\ UNCHANGED <<ca_code_context, ca_error_type>>

\* ------------------------------------------------------------------------
\* CodeBERTModel._calculate_confidence on its own
\* ------------------------------------------------------------------------

\* The messages a confidence is computed for: those the classifiers are
\* tried on, and messages in which two to six patterns of one kind are found.
ConfidenceMessages ==
    MLMessages \cup
    { <<"S","y","n","t","a","x","E","r","r","o","r",":"," ","i","n","v","a","l","i","d"," ","s","y","n","t","a","x">>,
      <<"S","y","n","t","a","x","E","r","r","o","r",":"," ","i","n","v","a","l","i","d"," ","s","y","n","t","a","x",","," ","u","n","e","x","p","e","c","t","e","d"," ","t","o","k","e","n">>,
      <<"S","y","n","t","a","x","E","r","r","o","r",":"," ","i","n","v","a","l","i","d"," ","s","y","n","t","a","x",","," ","u","n","e","x","p","e","c","t","e","d"," ","t","o","k","e","n",","," ","u","n","e","x","p","e","c","t","e","d"," ","E","O","F">>,
      <<"S","y","n","t","a","x","E","r","r","o","r",":"," ","i","n","v","a","l","i","d"," ","s","y","n","t","a","x",","," ","u","n","e","x","p","e","c","t","e","d"," ","t","o","k","e","n",","," ","u","n","e","x","p","e","c","t","e","d"," ","E","O","F",","," ","u","n","e","x","p","e","c","t","e","d"," ","i","n","d","e","n","t",","," ","m","i","s","s","i","n","g"," ",")">> }

\* The kinds a confidence is computed for: those of error_patterns, the
\* unknown one, and a kind that has no patterns.
ConfidenceKinds ==
    {error_patterns[r].kind : r \in 1..Len(error_patterns)}
        \cup {K_unknown_error, <<"r","e","f","e","r","e","n","c","e","_","e","r","r","o","r">>}

VARIABLES
    cc_error_message,   \* _calculate_confidence: the argument error_message
    cc_error_type,      \* _calculate_confidence: the argument error_type
    cc_called,          \* _calculate_confidence has returned
    cc_confidence       \* what it returned, in hundredths

ccVars == <<cc_error_message, cc_error_type, cc_called, cc_confidence>>

\* No confidence is being computed.
CCIdle ==
    /\ cc_error_message = <<>>
    /\ cc_error_type = K_unknown_error
    /\ cc_called = FALSE
    /\ cc_confidence = 0

\* A call of _calculate_confidence with a message and a kind.
CCInit ==
    /\ cc_error_message \in ConfidenceMessages
    /\ cc_error_type \in ConfidenceKinds
    /\ cc_called = FALSE
    /\ cc_confidence = 0

\* _calculate_confidence(error_message, error_type) returns.
CalculateConfidence ==
    /\ ~cc_called
    /\ cc_called' = TRUE
    /\ cc_confidence' = _calculate_confidence(cc_error_message, cc_error_type)
    /\ UNCHANGED <<cc_error_message, cc_error_type>>

\* ------------------------------------------------------------------------
\* CodeBERTModel._get_rule_based_fix on Python values
\* ------------------------------------------------------------------------

\* The kinds that have a rewriter.
RewriterKinds == {K_syntax, K_indentation, K_name, K_type}

\* The rewriter of the kind raises: code.split and re.sub need a string for
\* the code, and _fix_type_error calls error_message.lower() on every line.
RewriterRaises(code, error_type, error_message) ==
    /\ error_type \in RewriterKinds
    /\ \/ code.tag # "str"
       \/ error_type = K_type /\ error_message.tag # "str"

\* The exception a rewriter raised, were it to leave _get_rule_based_fix.
RaisedVal == [tag |-> "raised", text |-> <<>>]

\* _get_rule_based_fix without its except clause.
GuardedRuleBasedFix_NoExcept(code, error_type, error_message) ==
    IF RewriterRaises(code, error_type, error_message) THEN RaisedVal
    ELSE IF error_type \notin RewriterKinds THEN NoneVal
    ELSE _get_rule_based_fix(code.text, error_type, error_message.text)

\* _get_rule_based_fix with its try and except, on any values: None when the
\* rewriter raised or the kind has none, else what the rewriter returned.
GuardedRuleBasedFix(code, error_type, error_message) ==
    IF RewriterRaises(code, error_type, error_message) THEN NoneVal
    ELSE IF error_type \notin RewriterKinds THEN NoneVal
    ELSE _get_rule_based_fix(code.text, error_type, error_message.text)

\* The codes, the messages and the kinds the fixer is called with: strings,
\* None and a number.
FixerCodes == {Str(c) : c \in MLCodes} \cup {NoneVal, NumberVal, Str(<<"t","o","t","a","l"," ","="," ","a"," ","+"," ","b">>)}

FixerMessages ==
    {Str(m) : m \in MLMessages}
        \cup {NoneVal, Str(<<"T","y","p","e","E","r","r","o","r",":"," ","u","n","s","u","p","p","o","r","t","e","d"," ","o","p","e","r","a","n","d"," ","t","y","p","e","(","s",")"," ","f","o","r"," ","+",":"," ","'","i","n","t","'"," ","a","n","d"," ","'","s","t","r","'">>)}

VARIABLES
    rb_code,            \* _get_rule_based_fix: the argument code
    rb_error_type,      \* the argument error_type
    rb_error_message,   \* the argument error_message
    rb_called,          \* _get_rule_based_fix has ended
    rb_rewriter_raised, \* the rewriter it selected raised
    rb_fix              \* what it returned, or the exception that left it

rbVars == <<rb_code, rb_error_type, rb_error_message, rb_called, rb_rewriter_raised, rb_fix>>

\* No call of the fixer is under way.
RBIdle ==
    /\ rb_code = NoneVal
    /\ rb_error_type = K_unknown_error
    /\ rb_error_message = NoneVal
    /\ rb_called = FALSE
    /\ rb_rewriter_raised = FALSE
    /\ rb_fix = NoneVal

\* A call of the fixer with a code, a kind and a message.
RBInit ==
    /\ rb_code \in FixerCodes
    /\ rb_error_type \in ConfidenceKinds
    /\ rb_error_message \in FixerMessages
    /\ rb_called = FALSE
    /\ rb_rewriter_raised = FALSE
    /\ rb_fix = NoneVal

\* _get_rule_based_fix(code, error_type, error_message) ends.
GetRuleBasedFix ==
    /\ ~rb_called
    /\ rb_called' = TRUE
    /\ rb_rewriter_raised' = RewriterRaises(rb_code, rb_error_type, rb_error_message)
    /\ rb_fix' = GuardedRuleBasedFix(rb_code, rb_error_type, rb_error_message)
    /\ UNCHANGED <<rb_code, rb_error_type, rb_error_message>>

\* ------------------------------------------------------------------------
\* The tables of the analyzer and of the generator across requests
\* ------------------------------------------------------------------------

\* The templates written back by a customisation that fills the template
\* itself instead of a copy.
TemplatesAfterCustomize_InPlace(solutions, matches, error_type) ==
    [k \in 1..Len(solutions) |->
        [description |-> solutions[k].description,
         code_template |-> Substitute(solutions[k].code_template, _extract_variables(matches, error_type))]]

\* The list of templates _customize_solutions was given, as the call leaves
\* it: custom_solution is a new dictionary and the replacement of the
\* placeholders writes into it, so each template keeps its code_template.
TemplatesAfterCustomize(solutions, matches, error_type) ==
    [k \in 1..Len(solutions) |->
        [description |-> solutions[k].description, code_template |-> solutions[k].code_template]]

\* The issue type whose list generate hands to _customize_solutions for the
\* kind, "" when the kind's dictionary has neither it nor 'default'.
IssueKey(error_type, root_cause) ==
    IF _determine_issue_type(root_cause) \in DOMAIN solution_templates[error_type]
    THEN _determine_issue_type(root_cause)
    ELSE IF "default" \in DOMAIN solution_templates[error_type] THEN "default" ELSE ""

VARIABLES
    tb_solution_templates,     \* SolutionGenerator.solution_templates, as it is now
    tb_root_cause_templates,   \* ContextAnalyzer.root_cause_templates, as it is now
    tb_served,                 \* the requests served so far
    tb_error_type,             \* the kind of the last request
    tb_code_context,           \* its code context
    tb_solutions               \* what generate ended with for it

tbVars == <<tb_solution_templates, tb_root_cause_templates, tb_served, tb_error_type, tb_code_context, tb_solutions>>

\* The tables as the constructors build them, no request served.
TBIdle ==
    /\ tb_solution_templates = solution_templates
    /\ tb_root_cause_templates = root_cause_templates
    /\ tb_served = 0
    /\ tb_error_type = "unknown_error"
    /\ tb_code_context = <<>>
    /\ tb_solutions = NoSolutions

TBInit == TBIdle

\* The kinds and the code contexts of the requests served: the kinds that
\* have templates and two that have none, and contexts of AnalyzerContexts.
TableKinds == DOMAIN solution_templates \cup {"reference_error", "unknown"}

TableContexts ==
    { <<>>,
      <<" "," "," ","1",":"," ","d"," ","="," ","{","}","\n",">",">",">"," "," "," "," ","2",":"," ","d","[","'","a","'","]">>,
      <<"x"," ","="," ","m","y","_","d","i","c","t","[","\"","k","e","y","\"","]"," ","+"," ","d"," ","["," ","'","k","'"," ","]">>,
      <<"a"," ","/"," ","0"," ","+"," ","b","/","c">>,
      <<"N","o","n","e",".","f","o","o"," ","o","b","j"," ","."," ","a","t","t","r">>,
      <<"[","]","[","0","]"," ","x","s","[","1","2","]">>,
      <<"p","r","i","n","t","(","f","o","o">> }

\* What generate makes of the analysis of a request: the matches, the
\* solutions, and the issue type whose list of the table was handed to
\* _customize_solutions ("" when none was).
ServedFor(kind, analysis) ==
    [matches |-> analysis.matches,
     solutions |-> generate(kind, analysis.root_cause, analysis.matches),
     key |-> IF kind \in DOMAIN solution_templates
             THEN IssueKey(kind, analysis.root_cause) ELSE ""]

\* ServedFor for every kind and code context, after analyze.
ServedTable ==
    [kind \in TableKinds |->
        [context \in TableContexts |-> ServedFor(kind, analyze(context, kind))]]

\* One more request goes through analyze and generate. analyze reads its
\* tables with .get and fills a dictionary of its own; generate takes the
\* list of the table itself and hands it to _customize_solutions, or raises
\* before that for a kind without templates.
ServeRequest ==
    /\ tb_served < MaxRequests
    /\ \E kind \in TableKinds, context \in TableContexts :
          LET served == ServedTable[kind][context]
          IN /\ tb_error_type' = kind
             /\ tb_code_context' = context
             /\ tb_solutions' = served.solutions
             /\ tb_solution_templates' =
                   IF served.key = "" THEN tb_solution_templates
                   ELSE [tb_solution_templates EXCEPT ![kind][served.key] =
                            TemplatesAfterCustomize(@, served.matches, kind)]
    /\ tb_served' = tb_served + 1
    /\ UNCHANGED tb_root_cause_templates

\* ------------------------------------------------------------------------
\* CodeBERTModel._extract_gemini_fix on its own
\* ------------------------------------------------------------------------

\* The responses the extraction is tried on: no content, fenced blocks with
\* and without a prefix, prose, fences without a line break, text before a
\* marker, plain code, and a prefix in capitals.
ExtractionResponses ==
    {NoneVal} \cup
    { Str(<<"@","@","@","p","y","t","h","o","n","\n","d","e","f"," ","f","(","x",")",":","\n"," "," "," "," ","r","e","t","u","r","n"," ","x","\n","@","@","@">>),
      Str(<<"F","i","x","e","d"," ","c","o","d","e",":","\n","R","e","s","u","l","t"," ","="," ","C","o","m","p","u","t","e","(","x",")">>),
      Str(<<"H","e","r","e"," ","i","s"," ","t","h","e"," ","f","i","x","e","d"," ","c","o","d","e",":","\n","@","@","@","\n","F","o","o"," ","="," ","1","\n","p","r","i","n","t","(","F","o","o",")","\n","@","@","@">>),
      Str(<<"I"," ","c","a","n","n","o","t"," ","h","e","l","p"," ","w","i","t","h"," ","t","h","a","t",".">>),
      Str(<<"@","@","@","p","y","t","h","o","n"," ","x"," ","="," ","Y"," ","+"," ","1","@","@","@">>),
      Str(<<"@","@","@","T","o","t","a","l"," ","="," ","A"," ","+"," ","B","@","@","@">>),
      Str(<<"S","u","r","e","."," ","F","i","x","e","d"," ","c","o","d","e",":","\n","R","e","s","u","l","t"," ","="," ","C","o","m","p","u","t","e","(","X",")">>),
      Str(<<"n","o","t","e",":"," ","c","o","r","r","e","c","t","e","d"," ","c","o","d","e",":"," ","v","a","l","u","e"," ","="," ","i","t","e","m","s","[","0","]">>),
      Str(<<"x"," ","="," ","1">>),
      Str(<<" "," ","T","o","t","a","l"," ","="," ","0","\n","f","o","r"," ","V"," ","i","n"," ","I","t","e","m","s",":","\n"," "," "," "," ","T","o","t","a","l"," ","+","="," ","V"," "," ">>),
      Str(<<"E","x","p","l","a","n","a","t","i","o","n"," ","f","i","r","s","t",".","\n","@","@","@","p","y","t","h","o","n","\n","A"," ","="," ","1","\n","@","@","@","\n","t","h","e","n","\n","@","@","@","\n","B"," ","="," ","2","\n","@","@","@">>),
      Str(<<"F","I","X","E","D"," ","C","O","D","E",":"," ","X"," ","="," ","1"," ","+"," ","Y">>) }

VARIABLES
    xt_response,        \* _extract_gemini_fix: the argument response_text
    xt_original_code,   \* the argument original_code
    xt_called,          \* _extract_gemini_fix has returned
    xt_fix              \* what it returned

xtVars == <<xt_response, xt_original_code, xt_called, xt_fix>>

\* No extraction is under way.
XTIdle ==
    /\ xt_response = NoneVal
    /\ xt_original_code = <<>>
    /\ xt_called = FALSE
    /\ xt_fix = NoneVal

\* A call of the extraction with a response and the original code.
XTInit ==
    /\ xt_response \in ExtractionResponses
    /\ xt_original_code \in MLCodes
    /\ xt_called = FALSE
    /\ xt_fix = NoneVal

\* _extract_gemini_fix(response_text, original_code) returns.
ExtractGeminiFix ==
    /\ ~xt_called
    /\ xt_called' = TRUE
    /\ xt_fix' = _extract_gemini_fix(xt_response, xt_original_code)
    /\ UNCHANGED <<xt_response, xt_original_code>>

\* ------------------------------------------------------------------------
\* Specifications
\* ------------------------------------------------------------------------

vars == <<mlVars, ppVars, ecVars, sgVars, fiVars, mcVars, phVars, exVars, caVars, ccVars, rbVars, tbVars, xtVars>>

\* The state of the remote fix model when nothing calls it.
MLIdle == MLInit /\ request = 1

\* The remote fix model under concurrent callers.
Init == MLInit /\ PPIdle /\ ECIdle /\ SGIdle /\ FIIdle /\ MCIdle /\ PHIdle /\ EXIdle /\ CAIdle /\ CCIdle /\ RBIdle /\ TBIdle /\ XTIdle

Next == (\E t \in Threads : MLStep(t)) /\ UNCHANGED <<ppVars, ecVars, sgVars, fiVars, mcVars, phVars, exVars, caVars, ccVars, rbVars, tbVars, xtVars>>

Spec == Init /\ [][Next]_vars

\* The preprocessor on every code, message and language.
InitPreprocessor == PPInit /\ MLIdle /\ ECIdle /\ SGIdle /\ FIIdle /\ MCIdle /\ PHIdle /\ EXIdle /\ CAIdle /\ CCIdle /\ RBIdle /\ TBIdle /\ XTIdle

NextPreprocessor == Preprocess /\ UNCHANGED <<mlVars, ecVars, sgVars, fiVars, mcVars, phVars, exVars, caVars, ccVars, rbVars, tbVars, xtVars>>

SpecPreprocessor == InitPreprocessor /\ [][NextPreprocessor]_vars

\* The error classifier on every message and context.
InitClassifier == ECInit /\ MLIdle /\ PPIdle /\ SGIdle /\ FIIdle /\ MCIdle /\ PHIdle /\ EXIdle /\ CAIdle /\ CCIdle /\ RBIdle /\ TBIdle /\ XTIdle

NextClassifier == Classify /\ UNCHANGED <<mlVars, ppVars, sgVars, fiVars, mcVars, phVars, exVars, caVars, ccVars, rbVars, tbVars, xtVars>>

SpecClassifier == InitClassifier /\ [][NextClassifier]_vars

\* The solution generator on every kind, root cause and matches.
InitGenerator == SGInit /\ MLIdle /\ PPIdle /\ ECIdle /\ FIIdle /\ MCIdle /\ PHIdle /\ EXIdle /\ CAIdle /\ CCIdle /\ RBIdle /\ TBIdle /\ XTIdle

NextGenerator == Generate /\ UNCHANGED <<mlVars, ppVars, ecVars, fiVars, mcVars, phVars, exVars, caVars, ccVars, rbVars, tbVars, xtVars>>

SpecGenerator == InitGenerator /\ [][NextGenerator]_vars

\* The indentation fixer on every code, applied twice.
InitIndentation == FIInit /\ MLIdle /\ PPIdle /\ ECIdle /\ SGIdle /\ MCIdle /\ PHIdle /\ EXIdle /\ CAIdle /\ CCIdle /\ RBIdle /\ TBIdle /\ XTIdle

NextIndentation == (FixIndentation \/ FixIndentationAgain) /\ UNCHANGED <<mlVars, ppVars, ecVars, sgVars, mcVars, phVars, exVars, caVars, ccVars, rbVars, tbVars, xtVars>>

SpecIndentation == InitIndentation /\ [][NextIndentation]_vars

\* Both classifiers on every code, message and context.
InitClassifiers == MCInit /\ MLIdle /\ PPIdle /\ ECIdle /\ SGIdle /\ FIIdle /\ PHIdle /\ EXIdle /\ CAIdle /\ CCIdle /\ RBIdle /\ TBIdle /\ XTIdle

NextClassifiers == ClassifyBoth /\ UNCHANGED <<mlVars, ppVars, ecVars, sgVars, fiVars, phVars, exVars, caVars, ccVars, rbVars, tbVars, xtVars>>

SpecClassifiers == InitClassifiers /\ [][NextClassifiers]_vars

\* Every request at every handler.
InitHandler == PHInit /\ MLIdle /\ PPIdle /\ ECIdle /\ SGIdle /\ FIIdle /\ MCIdle /\ EXIdle /\ CAIdle /\ CCIdle /\ RBIdle /\ TBIdle /\ XTIdle

NextHandler == ProcessRequest /\ UNCHANGED <<mlVars, ppVars, ecVars, sgVars, fiVars, mcVars, exVars, caVars, ccVars, rbVars, tbVars, xtVars>>

SpecHandler == InitHandler /\ [][NextHandler]_vars

\* The lookup of every identifier, several times.
InitExamples == EXInit /\ MLIdle /\ PPIdle /\ ECIdle /\ SGIdle /\ FIIdle /\ MCIdle /\ PHIdle /\ CAIdle /\ CCIdle /\ RBIdle /\ TBIdle /\ XTIdle

NextExamples == GetExample /\ UNCHANGED <<mlVars, ppVars, ecVars, sgVars, fiVars, mcVars, phVars, caVars, ccVars, rbVars, tbVars, xtVars>>

SpecExamples == InitExamples /\ [][NextExamples]_vars

\* The context analyzer on every code context and kind.
InitAnalyzer == CAInit /\ MLIdle /\ PPIdle /\ ECIdle /\ SGIdle /\ FIIdle /\ MCIdle /\ PHIdle /\ EXIdle /\ CCIdle /\ RBIdle /\ TBIdle /\ XTIdle

NextAnalyzer == Analyze /\ UNCHANGED <<mlVars, ppVars, ecVars, sgVars, fiVars, mcVars, phVars, exVars, ccVars, rbVars, tbVars, xtVars>>

SpecAnalyzer == InitAnalyzer /\ [][NextAnalyzer]_vars

\* The confidence of every message and kind.
InitConfidence == CCInit /\ MLIdle /\ PPIdle /\ ECIdle /\ SGIdle /\ FIIdle /\ MCIdle /\ PHIdle /\ EXIdle /\ CAIdle /\ RBIdle /\ TBIdle /\ XTIdle

NextConfidence == CalculateConfidence /\ UNCHANGED <<mlVars, ppVars, ecVars, sgVars, fiVars, mcVars, phVars, exVars, caVars, rbVars, tbVars, xtVars>>

SpecConfidence == InitConfidence /\ [][NextConfidence]_vars

\* The rule-based fixer on every code, kind and message.
InitRuleBased == RBInit /\ MLIdle /\ PPIdle /\ ECIdle /\ SGIdle /\ FIIdle /\ MCIdle /\ PHIdle /\ EXIdle /\ CAIdle /\ CCIdle /\ TBIdle /\ XTIdle

NextRuleBased == GetRuleBasedFix /\ UNCHANGED <<mlVars, ppVars, ecVars, sgVars, fiVars, mcVars, phVars, exVars, caVars, ccVars, tbVars, xtVars>>

SpecRuleBased == InitRuleBased /\ [][NextRuleBased]_vars

\* Requests served one after another on the same tables.
InitTables == TBInit /\ MLIdle /\ PPIdle /\ ECIdle /\ SGIdle /\ FIIdle /\ MCIdle /\ PHIdle /\ EXIdle /\ CAIdle /\ CCIdle /\ RBIdle /\ XTIdle

NextTables == ServeRequest /\ UNCHANGED <<mlVars, ppVars, ecVars, sgVars, fiVars, mcVars, phVars, exVars, caVars, ccVars, rbVars, xtVars>>

SpecTables == InitTables /\ [][NextTables]_vars

\* The extraction on every response and original code.
InitExtraction == XTInit /\ MLIdle /\ PPIdle /\ ECIdle /\ SGIdle /\ FIIdle /\ MCIdle /\ PHIdle /\ EXIdle /\ CAIdle /\ CCIdle /\ RBIdle /\ TBIdle

NextExtraction == ExtractGeminiFix /\ UNCHANGED <<mlVars, ppVars, ecVars, sgVars, fiVars, mcVars, phVars, exVars, caVars, ccVars, rbVars, tbVars>>

SpecExtraction == InitExtraction /\ [][NextExtraction]_vars

\* ------------------------------------------------------------------------
\* The remote fix model: properties.

\* A thread has returned from the method it called.
Returned(t, method) == pc[t] = "idle" /\ op[t] = method

\* C1: generate_fix returns a non-empty code string (never null, never a
\* non-string value), whether or not the client loads.
C1_GenerateFixReturnsCode ==
    \A t \in Threads :
        Returned(t, "generate_fix") =>
            /\ result[t].tag = "str"
            /\ Len(result[t].text) > 0

\* C6: at most one thread at a time is in the client-initialisation sequence,
\* and it holds the lock; every other caller of _ensure_model_loaded waits for
\* the lock or has returned.
C6_OneInitializer ==
    /\ Cardinality({t \in Threads : pc[t] \in InitSequence}) <= 1
    /\ \A t \in Threads : pc[t] \in InitSequence \cup {"ensure_recheck"} => loading_lock = t

\* One thread is in the middle of the initialisation sequence while another
\* caller waits for the lock.
C6_Witness ==
    \E t, u \in Threads :
        /\ t # u
        /\ pc[t] \in {"init_smoke", "init_set_loaded"}
        /\ pc[u] = "ensure_lock"

\* C7: once the loaded flag is true it stays true, and no step constructs a
\* client or issues a smoke test again: the smoke test is issued at most once.
C7_LoadedOnce ==
    /\ [][model_loaded =>
            /\ model_loaded'
            /\ smoke_calls' = smoke_calls
            /\ client' = client
            /\ thread_local_client' = thread_local_client]_vars
    /\ [](smoke_calls <= 1)

\* The model is loaded and a thread other than the one that loaded it has been
\* through _ensure_model_loaded after that and was told it is loaded.
C7_Witness ==
    /\ model_loaded
    /\ smoke_calls = 1
    /\ \E t \in Threads :
          /\ t # client
          /\ Returned(t, "initialize")
          /\ result[t] = TrueVal

\* C8: once a thread has initialised the client, a fix generation on any
\* thread that gets past the readiness check and the generation config issues
\* its remote call.
C8_OtherThreadCalls ==
    \A t \in Threads :
        (Returned(t, "_run_async_fix") /\ first_outcome[t] \notin {"none", "config_raised"})
            => gen_calls[t] >= 1

\* C9: when the extracted fix fails the acceptance check, the result of the
\* fix generation is the output of a simplified-prompt retry or of the
\* rule-based fixer.
C9_RejectedFixReplaced ==
    \A t \in Threads :
        (Returned(t, "_run_async_fix") /\ first_outcome[t] = "rejected") =>
            /\ result[t].tag = "str"
            /\ \/ retry_outcome[t] = "returned"
               \/ result[t] = RuleBasedFallback

\* C10: when the first generation call fails, exactly one more call is made;
\* when that one fails or its extraction is unusable, the result is the
\* rule-based fixer's output, or the original code if the fixer has none.
C10_RetryThenRuleBased ==
    \A t \in Threads :
        (Returned(t, "_run_async_fix") /\ first_outcome[t] \in {"call_raised", "no_content"}) =>
            /\ gen_calls[t] = 2
            /\ retry_outcome[t] \in {"call_raised", "no_content", "too_short"}
                  => result[t] = RuleBasedFallback

\* C11: a call of generate_fix attempts the connection setup at most
\* max_retries + 1 = 3 times and sleeps only between two attempts; when every
\* attempt has failed it returns the rule-based fix, or the code if there is
\* none, without a generation call; and the step in which an attempt finds
\* the model loaded ends the call, without a further attempt.
C11_SetupAttempts ==
    /\ [](\A t \in Threads :
            op[t] = "generate_fix" =>
                /\ attempt[t] + 1 <= 3
                /\ gen_calls[t] = 0
                /\ pc[t] = "ensure_fast" => attempt[t] \in 1..2
                /\ (pc[t] = "idle" /\ result[t] # CoroutineVal) =>
                       /\ attempt[t] + 1 = 3
                       /\ result[t] = RuleBasedFallback)
    /\ [][\A t \in Threads :
            (/\ op[t] = "generate_fix"
             /\ pc[t] \in {"ensure_fast", "ensure_recheck", "init_set_initialized"}
             /\ model_loaded
             /\ pc'[t] # pc[t]) =>
                /\ pc'[t] = "idle"
                /\ result'[t] = CoroutineVal
                /\ attempt'[t] = attempt[t]]_vars

\* Three setup attempts of one call have failed and generate_fix has returned
\* the rule-based fix, which differs from the code.
C11_Witness ==
    \E t \in Threads :
        /\ Returned(t, "generate_fix")
        /\ attempt[t] = 2
        /\ ~model_loaded
        /\ result[t] = RuleBasedFallback
        /\ result[t] # Str(Code)

\* C12: a smoke test that raises does not abort the initialisation: the step
\* after it marks the model loaded, and once the sequence is over the model is
\* loaded and initialized and the thread that ran it was told so. The handler
\* that clears the flags runs only when no smoke test has been issued, that
\* is, when the key check or the client setup failed.
C12_SmokeFailureTolerated ==
    /\ [](\A t \in Threads :
            /\ pc[t] \in {"init_fail_loaded", "init_fail_initialized"} =>
                  (smoke_calls = 0 /\ smoke_outcome = "none" /\ ~thread_local_client[t])
            /\ (smoke_outcome = "raised"
                  /\ \A u \in Threads : pc[u] \notin {"init_set_loaded", "init_set_initialized"})
                  => (model_loaded /\ is_initialized)
            /\ (smoke_outcome = "raised" /\ client = t /\ Returned(t, "initialize"))
                  => result[t] = TrueVal)
    /\ [][\A t \in Threads :
            (pc[t] = "init_smoke" /\ pc'[t] # pc[t]) => pc'[t] = "init_set_loaded"]_vars

\* The smoke test raised, and the thread that ran it has returned from
\* initialize() with True, the model loaded and initialized.
C12_Witness ==
    \E t \in Threads :
        /\ smoke_outcome = "raised"
        /\ client = t
        /\ Returned(t, "initialize")
        /\ result[t] = TrueVal
        /\ model_loaded
        /\ is_initialized

\* The responses the extraction turns down: no fenced code block and none of
\* the code-like tokens, or an extracted text under one of the two minimal
\* lengths (5 characters in the extraction, 10 after it).
ExtractionRejects(response, code) ==
    /\ response.tag = "str"
    /\ \/ /\ BlockStarts(response.text) = {}
          /\ \A ind \in CodeIndicators : ~Contains(response.text, ind)
       \/ Len(ExtractedText(response.text)) < 5
       \/ Len(Strip(_extract_gemini_fix(response, code).text)) < 10

\* C13: when fix generation has returned and the response of its first call,
\* or of its retry, was one the extraction turns down, the value returned is
\* the original code (not None, not an empty string, not the prose).
C13_RejectedExtractionReturnsCode ==
    \A t \in Threads :
        pc[t] = "idle" =>
            /\ ExtractionRejects(response_text[t], Code) => result[t] = Str(Code)
            /\ ExtractionRejects(retry_text[t], Code) => result[t] = Str(Code)

\* ------------------------------------------------------------------------
\* The preprocessor: properties.

\* preprocess returned and found a line number in the message.
LineNumberFound == pp_called /\ preprocessed_data.line_number.tag = "int"

\* preprocess returned and found no line number.
NoLineNumberFound == pp_called /\ preprocessed_data.line_number.tag = "none"

\* The lines of the normalized code.
CodeLines == SplitOn(preprocessed_data.normalized_code, "\n")

\* The lines of the context; the empty context has none.
ContextLines ==
    IF preprocessed_data.code_context = <<>> THEN <<>>
    ELSE SplitOn(preprocessed_data.code_context, "\n")

WindowFirst == Max({1, preprocessed_data.line_number.value - 3})

WindowLast == Min({Len(CodeLines), preprocessed_data.line_number.value + 3})

\* The context lines that carry the error marker.
MarkedLines == {k \in 1..Len(ContextLines) : StartsWith(ContextLines[k], <<">", " ">>)}

\* The context is the lines WindowFirst..WindowLast of the code, each after a
\* two-character prefix, its 1-based number, a colon and a space.
WindowAsStated ==
    /\ Len(ContextLines) = Max({0, WindowLast - WindowFirst + 1})
    /\ \A k \in 1..Len(ContextLines) :
          LET n == WindowFirst + k - 1
          IN /\ SubSeq(ContextLines[k], 1, 2) \in {<<">", " ">>, <<" ", " ">>}
             /\ From(ContextLines[k], 3) = Decimal(n) \o <<":", " ">> \o CodeLines[n]

\* C4 as stated: for every extracted line number L, also 0 and numbers beyond
\* the last line, the context is the window max(1, L-3)..min(N, L+3) and
\* exactly one of its lines carries the '> ' marker.
C4_ExactlyOneMarked ==
    LineNumberFound => (WindowAsStated /\ Cardinality(MarkedLines) = 1)

\* C4: for every extracted line number L the context is the window
\* max(1, L-3)..min(N, L+3) of numbered lines; the line numbered L carries the
\* '> ' marker and no other line does, so that one line is marked when
\* 1 <= L <= N and none is when L = 0 or L > N.
C4_WindowAndMarker ==
    LineNumberFound =>
        /\ WindowAsStated
        /\ MarkedLines = {k \in 1..Len(ContextLines) :
                              WindowFirst + k - 1 = preprocessed_data.line_number.value}
        /\ Cardinality(MarkedLines) =
              (IF preprocessed_data.line_number.value \in 1..Len(CodeLines) THEN 1 ELSE 0)

\* The message names a line just beyond the end of a code of several lines:
\* the context is not empty and none of its lines is marked.
C4_Witness ==
    /\ LineNumberFound
    /\ preprocessed_data.line_number.value > Len(CodeLines)
    /\ Len(ContextLines) >= 3
    /\ MarkedLines = {}

\* C5 as stated: without a line number the context equals the input code,
\* character for character.
C5_ContextVerbatim ==
    NoLineNumberFound => preprocessed_data.code_context = pp_code

\* A line of the code ends with whitespace.
TrailingWhitespace(code) ==
    \E i \in 1..Len(SplitOn(code, "\n")) : TrailingWS(SplitOn(code, "\n")[i]) > 0

\* C5: without a line number the context equals the normalized code: it has
\* no carriage return and no trailing whitespace on any line, and it equals
\* the input verbatim exactly when the input has neither.
C5_ContextNormalized ==
    NoLineNumberFound =>
        /\ preprocessed_data.code_context = preprocessed_data.normalized_code
        /\ ~Contains(preprocessed_data.code_context, <<"\r">>)
        /\ ~TrailingWhitespace(preprocessed_data.code_context)
        /\ preprocessed_data.code_context = pp_code
              <=> (~Contains(pp_code, <<"\r">>) /\ ~TrailingWhitespace(pp_code))

\* A language without a line-number pattern, a message that names a line and
\* a code with CRLF line endings: the context differs from the input.
C5_Witness ==
    /\ NoLineNumberFound
    /\ pp_language = "ruby"
    /\ pp_error_message \in LineMessages
    /\ Contains(pp_code, <<"\r", "\n">>)
    /\ preprocessed_data.code_context # pp_code

\* ------------------------------------------------------------------------
\* The error classifier: properties.

\* The ErrorKind enumeration.
ErrorKind ==
    {"syntax_error", "type_error", "name_error", "index_error", "key_error", "value_error",
     "attribute_error", "import_error", "division_by_zero", "indentation_error",
     "reference_error", "unknown_error"}

\* The kinds of the pattern table that ErrorKind does not list.
TableOnlyKinds ==
    {"io_error", "memory_error", "runtime_error", "logic_error", "null_pointer",
     "overflow_error", "timeout_error", "connection_error", "permission_error",
     "dependency_error"}

ChainTemplates(error_type, issue_type) ==
    IF error_type \in DOMAIN solution_templates
          /\ issue_type \in DOMAIN solution_templates[error_type]
    THEN solution_templates[error_type][issue_type]
    ELSE IF error_type \in DOMAIN solution_templates
          /\ "default" \in DOMAIN solution_templates[error_type]
    THEN solution_templates[error_type]["default"]
    ELSE DefaultTemplates

\* C3: for every kind, also one without an entry in the template table, and
\* every root-cause analysis, generate does not raise and returns a non-empty
\* list, one solution for each template the fallback chain chooses.
C3_SolutionsByFallbackChain ==
    sg_called =>
        LET chosen == ChainTemplates(sg_error_type, _determine_issue_type(sg_root_cause))
        IN /\ ~sg_result.raised
           /\ Len(sg_result.solutions) > 0
           /\ Len(sg_result.solutions) = Len(chosen)
           /\ \A k \in 1..Len(chosen) :
                 sg_result.solutions[k].description = chosen[k].description

\* ------------------------------------------------------------------------
\* The indentation fixer: properties.
\* ------------------------------------------------------------------------

\* A line of whitespace only, or of nothing.
BlankLine(line) == \A k \in 1..Len(line) : line[k] \in WS

\* `out` is `line` with its leading whitespace replaced by spaces, four for
\* every full four characters of it.
ReindentedAs(line, out) ==
    LET n == 4 * (LeadingWS(line) \div 4)
    IN /\ Len(out) = n + Len(line) - LeadingWS(line)
       /\ \A k \in 1..n : out[k] = " "
       /\ \A k \in 1..(Len(line) - LeadingWS(line)) : out[n + k] = line[LeadingWS(line) + k]

\* C14: the fixer gives back as many lines as it got, a blank line as it was
\* and every other line at (leading whitespace // 4) * 4 spaces; applied to
\* its own output it changes nothing.
C14_IndentationIdempotent ==
    /\ fi_calls >= 1 =>
          LET lines == SplitOn(fi_code, "\n")
              fixed_lines == SplitOn(fi_fixed, "\n")
          IN /\ Len(fixed_lines) = Len(lines)
             /\ \A i \in 1..Len(lines) :
                   IF BlankLine(lines[i]) THEN fixed_lines[i] = lines[i]
                   ELSE ReindentedAs(lines[i], fixed_lines[i])
    /\ fi_calls = 2 => fi_refixed = fi_fixed

\* Both calls were made on a code with a statement indented by more than four
\* characters, not a multiple of four, next to a blank line that holds whitespace.
C14_Witness ==
    /\ fi_calls = 2
    /\ fi_fixed # fi_code
    /\ LET lines == SplitOn(fi_code, "\n")
       IN /\ \E i \in 1..Len(lines) :
                ~BlankLine(lines[i]) /\ LeadingWS(lines[i]) > 4 /\ LeadingWS(lines[i]) % 4 # 0
          /\ \E i \in 1..Len(lines) : BlankLine(lines[i]) /\ Len(lines[i]) > 0

\* ------------------------------------------------------------------------
\* The two classifiers: properties.
\* ------------------------------------------------------------------------

\* C15: on the empty message, whatever the code and the context,
\* ErrorClassifier.classify returns 'unknown' and CodeBERTModel.classify
\* returns 'unknown_error' with confidence 0.1 and no rule-based fix.
C15_EmptyMessageUnknown ==
    (mc_called /\ mc_error_message = <<>>) =>
        /\ mc_error_type = "unknown"
        /\ mc_result.error_type = K_unknown_error
        /\ mc_result.confidence = 10
        /\ mc_result.suggested_fix = NoneVal

\* Both classifiers have answered on the empty message with a code and a
\* context that are not empty.
C15_Witness ==
    /\ mc_called
    /\ mc_error_message = <<>>
    /\ mc_code # <<>>
    /\ mc_code_context # <<>>
    /\ mc_error_type = "unknown"
    /\ mc_result.confidence = 10

\* ------------------------------------------------------------------------
\* The request handler: properties.
\* ------------------------------------------------------------------------

\* The code field of the request is absent, null or the empty string.
CodeAbsentOrEmpty ==
    \/ "code" \notin DOMAIN request_data
    \/ request_data.code \in {NoneVal, Str(<<>>)}

\* C16: a request without a code, or with an empty one, is answered with
\* success false, the error 'Code is required' and status 400, and no stage of
\* the pipeline has been called for it.
C16_CodeRequired ==
    (handled /\ CodeAbsentOrEmpty) =>
        /\ http_response = CodeRequired
        /\ invoked_stages = <<>>
        /\ raised_stages = {}

\* A request with an error message and no code field has been refused, at a
\* handler that has a model.
C16_Witness ==
    /\ handled
    /\ "code" \notin DOMAIN request_data
    /\ "error_message" \in DOMAIN request_data
    /\ request_data.error_message # <<>>
    /\ ml_model = "codebert"
    /\ http_response.status = 400

\* The stages whose exceptions only the handler of line 132 catches, each
\* with the message of the exception it raises.
StageErrors ==
    [preprocess |-> NoReplaceMessage, generate |-> NoGetMessage,
     jsonify |-> NotSerializableMessage]

\* The calls of the ML model, whose exceptions lines 71 and 111 catch.
MLStages == {"ml_classify", "generate_fix"}

\* C17: process_request always returns a response. When a stage other than a
\* call of the ML model has raised, the response is success false with the
\* message of the exception and status 500; when only calls of the ML model
\* have raised, the request is answered with success true and status 200.
C17_ExceptionsCaught ==
    handled =>
        /\ http_response # NoResponse
        /\ \A stage \in raised_stages \ MLStages :
              http_response = [status |-> 500, success |-> FALSE, error |-> StageErrors[stage]]
        /\ (raised_stages # {} /\ raised_stages \subseteq MLStages) =>
              (http_response.status = 200 /\ http_response.success)

\* Both calls of the ML model have raised and the request went on to the
\* solution generator, which raised: the answer is the 500 response.
C17_Witness ==
    /\ handled
    /\ raised_stages = {"ml_classify", "generate_fix", "generate"}
    /\ http_response.status = 500

\* Only the calls of the ML model have raised, and the request is answered.
MLFailureAlone ==
    /\ handled
    /\ raised_stages = MLStages
    /\ http_response.status = 200

\* The exception names of the claim, the highest priority first, each with
\* its kind.
ExceptionTokens ==
    << [token |-> <<"S","y","n","t","a","x","E","r","r","o","r">>, kind |-> "syntax_error"],
       [token |-> <<"T","y","p","e","E","r","r","o","r">>, kind |-> "type_error"],
       [token |-> <<"K","e","y","E","r","r","o","r">>, kind |-> "key_error"],
       [token |-> <<"I","n","d","e","x","E","r","r","o","r">>, kind |-> "index_error"],
       [token |-> <<"N","a","m","e","E","r","r","o","r">>, kind |-> "name_error"],
       [token |-> <<"Z","e","r","o","D","i","v","i","s","i","o","n","E","r","r","o","r">>, kind |-> "division_by_zero"],
       [token |-> <<"A","t","t","r","i","b","u","t","e","E","r","r","o","r">>, kind |-> "attribute_error"],
       [token |-> <<"R","e","f","e","r","e","n","c","e","E","r","r","o","r">>, kind |-> "reference_error"] >>

\* The tokens the error message of the request contains, as positions of
\* the list.
TokensPresent ==
    IF "error_message" \notin DOMAIN request_data THEN {}
    ELSE {k \in 1..Len(ExceptionTokens) :
            Contains(request_data.error_message, ExceptionTokens[k].token)}

\* The code of the request is a string that is not empty.
CodeGiven ==
    /\ "code" \in DOMAIN request_data
    /\ request_data.code.tag = "str"
    /\ request_data.code.text # <<>>

\* C18: a request with a code, at a handler without an ML model, whose error
\* message contains one of the exception names, is answered with status 200
\* and success true, and analysis.error_type is the kind of the name of
\* highest priority in the message.
C18_TokenKind ==
    (handled /\ ml_model = "none" /\ CodeGiven /\ TokensPresent # {}) =>
        /\ http_response.status = 200
        /\ http_response.success
        /\ http_response.analysis.error_type = ExceptionTokens[Min(TokensPresent)].kind

\* The positions of the solutions that carry a source: the entries
\* process_request makes of what the ML model gave.
MLSourced(solutions) == {k \in 1..Len(solutions) : "source" \in DOMAIN solutions[k]}

\* The descriptions of the solutions, in their order.
Descriptions(solutions) == [k \in 1..Len(solutions) |-> solutions[k].description]

\* C19: in a successful response at most one solution has an ML source, which
\* is 'ml_model_rule_based' or 'ml_model'; it is the first of the list; and
\* the solutions after it are the ones SolutionGenerator.generate gives for
\* the analysis of the response, in the order of one list of the template
\* table of that kind.
C19_SolutionsOrder ==
    (handled /\ http_response.success) =>
        LET solutions == http_response.solutions
            analysis == http_response.analysis
            templated == SubSeq(solutions, Cardinality(MLSourced(solutions)) + 1, Len(solutions))
        IN /\ MLSourced(solutions) \subseteq {1}
           /\ \A k \in MLSourced(solutions) :
                 solutions[k].source \in {"ml_model_rule_based", "ml_model"}
           /\ templated =
                 generate(analysis.error_type, analysis.root_cause,
                          analyze(analysis.code_context, analysis.error_type).matches).solutions
           /\ \E issue_type \in DOMAIN solution_templates[analysis.error_type] :
                 Descriptions(templated) =
                     Descriptions(solution_templates[analysis.error_type][issue_type])

\* A successful response whose first solution is the one of generate_fix,
\* followed by the two templates of a missing key.
C19_Witness ==
    /\ handled
    /\ http_response.success
    /\ Len(http_response.solutions) = 3
    /\ "source" \in DOMAIN http_response.solutions[1]
    /\ http_response.solutions[1].source = "ml_model"
    /\ http_response.analysis.error_type = "key_error"

\* A successful response whose first solution is the rule-based fix of the
\* classification.
RuleBasedFirst ==
    /\ handled
    /\ http_response.success
    /\ Len(http_response.solutions) >= 2
    /\ "source" \in DOMAIN http_response.solutions[1]
    /\ http_response.solutions[1].source = "ml_model_rule_based"

\* The code context preprocess makes of the request.
RequestContext ==
    preprocess(request_data.code.text, GetOr(request_data, "error_message", <<>>),
               GetOr(request_data, "language", "python")).code_context

\* The name and the key of the access name['key'] or name["key"] that starts
\* at position i of s, both made of word characters, with optional
\* whitespace around the brackets; <<>> when no such access starts there.
AccessAt(s, i) ==
    LET name_end == WordRunEnd(s, i)
        bracket == WSRunEnd(s, name_end + 1) + 1
        quote == WSRunEnd(s, bracket + 1) + 1
        key_end == WordRunEnd(s, quote + 1)
        closing == WSRunEnd(s, key_end + 2) + 1
    IN IF /\ name_end >= i
          /\ bracket <= Len(s) /\ s[bracket] = "["
          /\ quote <= Len(s) /\ s[quote] \in {"'", "\""}
          /\ key_end > quote
          /\ key_end < Len(s) /\ s[key_end + 1] \in {"'", "\""}
          /\ closing <= Len(s) /\ s[closing] = "]"
       THEN <<SubSeq(s, i, name_end), SubSeq(s, quote + 1, key_end)>>
       ELSE <<>>

\* The positions of s where such an access starts.
Accesses(s) == {i \in 1..Len(s) : AccessAt(s, i) # <<>>}

\* The two solutions of a missing key for the dictionary `name` and the key
\* `key`: the `in` check, then the .get() lookup with a default value.
MissingKeySolutions(name, key) ==
    << [description |-> "Check if the key exists before accessing it",
        code |-> <<"i","f"," ","\"">> \o key \o <<"\""," ","i","n"," ">> \o name
                   \o <<":","\n"," "," "," "," ","#"," ","A","c","c","e","s","s"," ">> \o name
                   \o <<"[","\"">> \o key \o <<"\"","]">>],
       [description |-> "Use the .get() method to provide a default value",
        code |-> <<"v","a","l","u","e"," ","="," ">> \o name \o <<".","g","e","t","(","\"">> \o key
                   \o <<"\"",","," ","d","e","f","a","u","l","t","_","v","a","l","u","e",")">>] >>

\* The request has a code, its message contains 'KeyError' and its code
\* context an access name['key'], and the handler has no ML model.
KeyErrorRequest ==
    /\ handled /\ ml_model = "none" /\ CodeGiven
    /\ 3 \in TokensPresent
    /\ Accesses(RequestContext) # {}

\* The response classifies a key error, gives the root cause of the missing
\* key and the two solutions for the first access of the context.
MissingKeyResponse ==
    LET first == AccessAt(RequestContext, Min(Accesses(RequestContext)))
    IN /\ http_response.success
       /\ http_response.analysis.error_type = "key_error"
       /\ http_response.analysis.root_cause = PatternSentences.missing_key
       /\ http_response.solutions = MissingKeySolutions(first[1], first[2])

\* C20 as stated: for a message containing 'KeyError' and a code context
\* containing an access name['key'] or name["key"], the classification is
\* key_error, the root cause is the sentence of the missing key, and the
\* solutions are exactly the `in` check and the .get() lookup, with the name
\* and the key of the first such access.
C20_AsStated == KeyErrorRequest => MissingKeyResponse

\* C20, amended: the same, for the messages that contain neither
\* 'SyntaxError' nor 'TypeError', the two names the classifier looks for
\* before 'KeyError'.
C20_MissingKey == (KeyErrorRequest /\ Min(TokensPresent) = 3) => MissingKeyResponse

\* Such a request has been answered, its code context being the numbered
\* window around the line the message names.
C20_Witness ==
    /\ KeyErrorRequest
    /\ Min(TokensPresent) = 3
    /\ http_response.success
    /\ http_response.analysis.line_number.tag = "int"
    /\ Len(http_response.solutions) = 2

\* ------------------------------------------------------------------------
\* The example lookup: properties.

\* The four fields of a canned example.
ExampleFields == {"code", "error_message", "language", "description"}

\* The response lists every example of the table once, in the order of the
\* table, each with its four fields and its identifier under 'id'.
ListsEveryExample ==
    /\ DOMAIN example_response.body = {"list"}
    /\ Len(example_response.body.list) = Cardinality(DOMAIN examples)
    /\ \A key \in DOMAIN examples :
          \E i \in 1..Len(example_response.body.list) :
             LET listed == example_response.body.list[i]
             IN /\ DOMAIN listed = ExampleFields \cup {"id"}
                /\ listed.id = key
                /\ \A field \in ExampleFields : listed[field] = examples[key][field]

\* C21: an identifier of the example table is answered with status 200,
\* success = true and exactly the canned record of that identifier; 'all' is
\* answered with every record, each tagged with its id; any other identifier
\* is answered with status 404 and success = false; and the table is after
\* every lookup what it was before.
C21_ExampleLookup ==
    lookups > 0 =>
       /\ examples_table = examples
       /\ IF example_id_asked = "all"
          THEN example_response.status = 200 /\ ListsEveryExample
          ELSE IF example_id_asked \in DOMAIN examples
          THEN /\ example_response.status = 200
               /\ DOMAIN example_response.body = {"success", "example"}
               /\ example_response.body.success = TRUE
               /\ DOMAIN example_response.body.example = ExampleFields
               /\ example_response.body.example = examples[example_id_asked]
          ELSE /\ example_response.status = 404
               /\ DOMAIN example_response.body = {"success", "error"}
               /\ example_response.body.success = FALSE

\* The example of the key error has been looked up after other lookups.
C21_Witness ==
    /\ lookups > 1
    /\ example_id_asked = "key_error"
    /\ example_response.status = 200
    /\ example_response.body.example.language = "python"

\* Every example has been listed, and an unknown identifier refused.
C21_WitnessAll == lookups > 0 /\ example_id_asked = "all" /\ ListsEveryExample
C21_WitnessMissing == lookups > 0 /\ example_id_asked = "nonexistent_example" /\ example_response.status = 404

\* ------------------------------------------------------------------------
\* The root causes and the issue types: properties.

\* The sub-pattern names whose sentence is the root cause given to generate.
NamedBy(root_cause) == {name \in DOMAIN PatternSentences : PatternSentences[name] = root_cause}

\* C22: for every sub-pattern name of the context analyzer, the sentence
\* _determine_root_cause emits for it is mapped back by _determine_issue_type
\* to that very name.
C22_Lockstep ==
    sg_called => \A name \in NamedBy(sg_root_cause) : _determine_issue_type(sg_root_cause) = name

\* ------------------------------------------------------------------------
\* The context analyzer: properties.

\* The positions, in the table of the kind analysed, of the sub-patterns
\* that re.findall finds in the code context.
MatchingPatterns ==
    {k \in 1..Len(ContextPatternsOf(ca_error_type)) :
        Len(FindAll(ContextPatternsOf(ca_error_type)[k], ca_code_context, 1)) > 0}

\* The sentence for a kind that has neither patterns nor templates.
KindSentence(kind) ==
    <<"A","n"," ","e","r","r","o","r"," ","o","f"," ","t","y","p","e"," ","'">> \o KindTexts[kind]
        \o <<"'"," ","o","c","c","u","r","r","e","d"," ","i","n"," ","t","h","e"," ","c","o","d","e">>

\* C23: the root cause analyze returns is the sentence of the first
\* sub-pattern of the kind that has matches, whatever later sub-patterns also
\* match; without any match it is the first generic sentence of the kind; for
\* a kind with neither patterns nor templates it is "An error of type
\* '<kind>' occurred in the code"; and it is never empty.
C23_FirstMatchWins ==
    ca_called =>
        /\ \A k \in MatchingPatterns :
              (\A j \in 1..(k - 1) : j \notin MatchingPatterns) =>
                 ca_result.root_cause = PatternSentences[ContextPatternsOf(ca_error_type)[k].name]
        /\ (MatchingPatterns = {} /\ ca_error_type \in DOMAIN root_cause_templates) =>
              ca_result.root_cause = root_cause_templates[ca_error_type][1]
        /\ (ContextPatternsOf(ca_error_type) = <<>> /\ ca_error_type \notin DOMAIN root_cause_templates) =>
              ca_result.root_cause = KindSentence(ca_error_type)
        /\ Len(ca_result.root_cause) > 0

\* analyze has ended on a context in which two sub-patterns of the kind
\* match, the first of the table not being one of them.
C23_Witness ==
    /\ ca_called
    /\ Cardinality(MatchingPatterns) >= 2
    /\ 1 \notin MatchingPatterns
    /\ ca_result.root_cause = PatternSentences[ContextPatternsOf(ca_error_type)[Min(MatchingPatterns)].name]

\* ------------------------------------------------------------------------
\* The error classifier: the exception names first.

\* The exception names the message given to classify contains, as positions
\* of the list of the names in their order of priority.
NamesInMessage ==
    {k \in 1..Len(ExceptionTokens) : Contains(ec_error_message, ExceptionTokens[k].token)}

\* C24: when the message contains one of SyntaxError, TypeError, KeyError,
\* IndexError, NameError, ZeroDivisionError, AttributeError, ReferenceError,
\* classify returns the kind of the first of them, in that order, that is
\* present, whatever the code context, the keywords and the patterns; the
\* empty message gives 'unknown'; the keywords and the patterns decide only
\* for a message that is not empty and contains none of the names.
C24_NamesFirst ==
    ec_called =>
        /\ NamesInMessage # {} => ec_error_type = ExceptionTokens[Min(NamesInMessage)].kind
        /\ ec_error_message = <<>> => ec_error_type = "unknown"
        /\ ec_error_type # DirectKind(ec_error_message, "unknown") =>
              (NamesInMessage = {} /\ ec_error_message # <<>>)

\* classify has answered type_error on a message that names KeyError before
\* TypeError, with a code context the pattern sweep reacts to.
C24_Witness ==
    /\ ec_called
    /\ ec_error_message = <<"K","e","y","E","r","r","o","r",":"," ","'","T","y","p","e","E","r","r","o","r","'">>
    /\ NamesInMessage = {2, 3}
    /\ ec_code_context # <<>>
    /\ ec_error_type = "type_error"

\* ------------------------------------------------------------------------
\* The confidence: properties.

\* The patterns of the kind that are found in the lower-cased message.
MatchedPatterns ==
    {n \in 1..Len(PatternsOf(cc_error_type)) :
        RegexSearch(Lower(cc_error_message), PatternsOf(cc_error_type)[n])}

\* C25: the confidence, in hundredths, lies between 10 and 90: it is 10 for
\* the unknown kind, else 30 for the empty message, and else the smaller of
\* 90 and 50 + 10 n, n being the number of patterns of the kind found in the
\* lower-cased message.
C25_ConfidenceRange ==
    cc_called =>
        /\ cc_confidence \in 10..90
        /\ cc_confidence =
              IF cc_error_type = K_unknown_error THEN 10
              ELSE IF cc_error_message = <<>> THEN 30
              ELSE IF Cardinality(MatchedPatterns) >= 4 THEN 90
              ELSE 50 + 10 * Cardinality(MatchedPatterns)

\* A confidence has been computed for a message in which more than four
\* patterns of the kind are found.
C25_Witness ==
    /\ cc_called
    /\ cc_error_type # K_unknown_error
    /\ Cardinality(MatchedPatterns) > 4
    /\ cc_confidence = 90

\* The confidence of the classification of every message lies in the range.
C25_ClassifiedRange == mc_called => mc_result.confidence \in 10..90

\* ------------------------------------------------------------------------
\* The rule-based fixer: properties.

\* What the rewriter of the kind makes of the code and the message.
RewriterOutput ==
    IF rb_error_type = K_syntax THEN _fix_syntax_error(rb_code.text, rb_error_message.text)
    ELSE IF rb_error_type = K_indentation THEN _fix_indentation_error(rb_code.text)
    ELSE IF rb_error_type = K_name THEN _fix_name_error(rb_code.text, rb_error_message.text)
    ELSE _fix_type_error(rb_code.text, rb_error_message.text)

\* C26: _get_rule_based_fix ends with a value and never with an exception:
\* the output of the rewriter for syntax_error, indentation_error, name_error
\* and type_error, None for every other kind, and None when the rewriter
\* raised; and it ends with no client built, no flag set and no remote call
\* made.
C26_RuleBasedFix ==
    rb_called =>
        /\ rb_fix.tag \in {"str", "none"}
        /\ rb_rewriter_raised => rb_fix = NoneVal
        /\ rb_error_type \notin RewriterKinds => rb_fix = NoneVal
        /\ (rb_error_type \in RewriterKinds /\ ~rb_rewriter_raised) => rb_fix = Str(RewriterOutput)
        /\ ~model_loaded /\ ~is_initialized /\ client = NoThread
        /\ smoke_calls = 0 /\ \A t \in Threads : gen_calls[t] = 0

\* The fixer has returned None for a code that is not a string and a kind
\* that has a rewriter.
C26_Witness ==
    /\ rb_called
    /\ rb_code = NoneVal
    /\ rb_error_type = K_name
    /\ rb_rewriter_raised
    /\ rb_fix = NoneVal

\* The fixer has returned a rewritten code.
C26_WitnessRewritten ==
    /\ rb_called
    /\ rb_error_type = K_type
    /\ rb_fix.tag = "str" /\ rb_fix # rb_code

\* ------------------------------------------------------------------------
\* The tables across requests: properties.

ToldLoaded == {t \in Threads : op[t] = "generate_fix" /\ pc[t] = "idle" /\ result[t] = CoroutineVal}

\* C28: whenever _ensure_model_loaded has returned true to a caller of
\* generate_fix, is_initialized is true as well: no caller sees the model
\* loaded and not initialized.
C28_InitializedWhenLoaded == ToldLoaded # {} => is_initialized

\* The flags themselves: loaded implies initialized.
C28_FlagsTogether == model_loaded => is_initialized

\* ------------------------------------------------------------------------
\* The request handler: the remote fix is asked last.

\* The normalized code of the request, which is what the ML model is given.
RequestNormalized ==
    preprocess(request_data.code.text, GetOr(request_data, "error_message", <<>>),
               GetOr(request_data, "language", "python")).normalized_code

\* What CodeBERTModel.classify answers for the request.
RequestClassified ==
    CodeBERTModel_classify(RequestNormalized, GetOr(request_data, "error_message", <<>>))

\* generate_fix has been called for the request.
FixAsked == \E k \in 1..Len(invoked_stages) : invoked_stages[k] = "generate_fix"

\* generate_fix was called only if classify gave no fix, and not at all for
\* a request classified as one of the four kinds that have a rewriter.
RemoteFixLast ==
    /\ FixAsked => RequestClassified.suggested_fix = NoneVal
    /\ RequestClassified.error_type \in RewriterKinds => ~FixAsked

\* C29 as stated: at a handler with the ML model of main.py, for every
\* request whose code is a non-empty string, generate_fix is called only when
\* classify supplied no rule-based fix, and never for a request classified as
\* syntax_error, indentation_error, name_error or type_error.
C29_AsStated == (handled /\ ml_model = "codebert" /\ CodeGiven) => RemoteFixLast

\* C29, amended: the same for the requests whose normalized code is not
\* empty, that is whose code is more than spaces and tabs on one line.
C29_RemoteFixLast ==
    (handled /\ ml_model = "codebert" /\ CodeGiven /\ RequestNormalized # <<>>) => RemoteFixLast

\* A request classified as a syntax error whose code the rewriter left as it
\* was has been answered without a call of generate_fix.
C29_Witness ==
    /\ handled /\ ml_model = "codebert" /\ CodeGiven
    /\ RequestNormalized # <<>>
    /\ RequestClassified.error_type = K_syntax
    /\ RequestClassified.suggested_fix = Str(RequestNormalized)
    /\ ~FixAsked
    /\ http_response.status = 200

\* A request of another kind has been answered after a call of generate_fix.
C29_WitnessAsked ==
    /\ handled /\ ml_model = "codebert" /\ CodeGiven
    /\ RequestClassified.error_type \notin RewriterKinds
    /\ FixAsked

\* ------------------------------------------------------------------------
\* The extraction: properties.

\* C30: whenever the extraction returns something other than the original
\* code, what it returns occurs in the response as it is, letter case
\* included: a contiguous piece of the response.
C30_VerbatimPiece ==
    (xt_called /\ xt_fix # Str(xt_original_code)) =>
        /\ xt_response.tag = "str"
        /\ Contains(xt_response.text, xt_fix.text)

\* The same for the responses in which no marker is followed by text once
\* the prefix and the fences are gone: the other routes keep the case.
C30_OtherRoutesVerbatim ==
    (/\ xt_called /\ xt_fix # Str(xt_original_code)
     /\ xt_response.tag = "str"
     /\ \A k \in 1..Len(Markers) : ~Contains(Lower(xt_response.text), Markers[k])) =>
        Contains(xt_response.text, xt_fix.text)

====
